---- MODULE Spec2Model ----
(***************************************************************************)
(* Field-reconciliation and compliance-decision engine of the trade        *)
(* finance backend: the two record mergers (merge_collected_data,          *)
(* VoiceLCAgent._merge_lc_data) and the offline sanctions evaluator        *)
(* (SanctionsAgent.check_lc_compliance) with its reference tables.         *)
(***************************************************************************)
EXTENDS Integers, Sequences, FiniteSets, TLC

(***************************************************************************)
(* Bounds of the merge model.                                              *)
(***************************************************************************)
\* number of distinct field keys a section of a record may hold
NumFields == 2

(***************************************************************************)
(* Python values of the merge model.  Field values are opaque scalars (the *)
(* mergers never inspect them beyond "is None"); a top-level value is      *)
(* either a scalar or a dict of fields.                                    *)
(***************************************************************************)
\* Python None, as a field value
NULL == "None"

\* field keys of the section shipment_details, in schema order
FieldNames == <<"port_of_loading", "port_of_destination", "product_description", "shipment_type">>

Fields == {FieldNames[i] : i \in 1..NumFields}

\* two distinct non-null field values
Vals == {"Karachi", "Jebel Ali"}

\* top-level keys of a record: one scalar enumerated key, one section
ScalarKeys == {"transaction_role"}

SectionKeys == {"shipment_details"}

TopKeys == ScalarKeys \cup SectionKeys

RoleVals == {"Importer (Applicant)"}

Scalar(v) == [kind |-> "scalar", val |-> v, items |-> <<>>]

Dict(d) == [kind |-> "dict", val |-> NULL, items |-> d]

\* isinstance(fields, dict)
IsDict(x) == x.kind = "dict"

SectionDicts == UNION {[D -> Vals \cup {NULL}] : D \in SUBSET Fields}

TopValues(k) ==
    IF k \in ScalarKeys THEN {Scalar(v) : v \in RoleVals \cup {NULL}}
    ELSE {Dict(d) : d \in SectionDicts}

\* every record of the expected shape: each top-level key absent or present,
\* each field of a section absent, None or a value
LCRecords ==
    UNION {{r \in [K -> UNION {TopValues(k) : k \in K}] :
                \A k \in K : r[k] \in TopValues(k)} : K \in SUBSET TopKeys}

(***************************************************************************)
(* The two mergers.                                                        *)
(***************************************************************************)
Impls == {"merge_collected_data", "_merge_lc_data"}

\* the condition as its comment words it: "... or if the collected value is not None"
ShouldAssignCollected_overwrite(sec, field, value) ==
    field \notin DOMAIN sec \/ value # NULL

\* vapi_lc_assistant.py: if field not in merged[section] or merged[section][field] is None
ShouldAssignCollected(sec, field, value) ==
    field \notin DOMAIN sec \/ sec[field] = NULL

\* the condition with the None test in front: a None value is never written
ShouldAssignExtracted_skip_none(sec, field, value) ==
    value # NULL /\ (field \notin DOMAIN sec \/ sec[field] = NULL)

\* the condition without its second disjunct: a field is only ever added
ShouldAssignExtracted_add_only(sec, field, value) ==
    field \notin DOMAIN sec

\* the condition as its comment words it: "... or override if extracted value
\* is not None"
ShouldAssignExtracted_override(sec, field, value) ==
    field \notin DOMAIN sec \/ value # NULL

\* the condition with the test of the present value turned round: a value is
\* replaced by a value, a None is never filled
ShouldAssignExtracted_replace(sec, field, value) ==
    field \notin DOMAIN sec \/ (value # NULL /\ sec[field] # NULL)

\* voice_lc_agent.py: if field not in merged[section] or
\*                       (value is not None and merged[section][field] is None)
ShouldAssignExtracted(sec, field, value) ==
    field \notin DOMAIN sec \/ (value # NULL /\ sec[field] = NULL)

ShouldAssign(i, sec, field, value) ==
    IF i = "merge_collected_data" THEN ShouldAssignCollected(sec, field, value)
    ELSE ShouldAssignExtracted(sec, field, value)

\* the inner loop over fields.items(), as a function of the section's dict
MergeSectionItems(i, m0, fields) ==
    [f \in DOMAIN m0 \cup DOMAIN fields |->
        IF f \in DOMAIN fields /\ ShouldAssign(i, m0, f, fields[f])
        THEN fields[f] ELSE m0[f]]

\* the whole merge as a function of its two arguments
MergeRecords(i, p, c) ==
    [s \in DOMAIN p \cup DOMAIN c |->
        IF s \notin DOMAIN c THEN p[s]
        ELSE LET m0 == IF s \in DOMAIN p THEN p[s] ELSE Dict(<<>>)
             IN IF IsDict(c[s])
                THEN Dict(MergeSectionItems(i, m0.items, c[s].items))
                ELSE m0]

(***************************************************************************)
(* The heap: dict objects by identity.  A top-level dict maps a key to a   *)
(* scalar cell or to a reference to a section dict.                        *)
(***************************************************************************)
PROVIDED == <<"provided">>

COLLECTED == <<"collected">>

NoRef == <<>>

ScalarCell(v) == [kind |-> "scalar", val |-> v, ref |-> NoRef]

RefCell(id) == [kind |-> "ref", val |-> NULL, ref |-> id]

\* the objects of record r, allocated under owner
Store(owner, r) ==
    LET dictKeys == {k \in DOMAIN r : IsDict(r[k])}
    IN (<<owner>> :> [k \in DOMAIN r |->
                        IF IsDict(r[k]) THEN RefCell(<<owner, k>>)
                        ELSE ScalarCell(r[k].val)])
       @@ [id \in {<<owner, k>> : k \in dictKeys} |-> r[id[2]].items]

\* the record value reachable from the top-level dict at top
Deref(h, top) ==
    [k \in DOMAIN h[top] |->
        IF h[top][k].kind = "ref" THEN Dict(h[h[top][k].ref])
        ELSE Scalar(h[top][k].val)]

\* copy.copy(src): a fresh top-level dict sharing the section dicts of src
DeepCopy_shallow(h, src, owner) == h @@ (<<owner>> :> h[src])

\* copy.deepcopy(src): fresh objects holding the same values
DeepCopy(h, src, owner) == h @@ Store(owner, Deref(h, src))

\* merged[section] = {}
NewDict(h, top, s) ==
    [h EXCEPT ![top] = @ @@ (s :> RefCell(<<"merged", s>>))]
        @@ (<<"merged", s>> :> <<>>)

\* merged[section][field] = value
SetItem(h, id, f, v) ==
    [h EXCEPT ![id] = IF f \in DOMAIN @ THEN [@ EXCEPT ![f] = v]
                      ELSE @ @@ (f :> v)]

(***************************************************************************)
(* Strings the evaluator inspects are tuples of characters, so that        *)
(* lower(), strip() and the substring test act on them as in Python.       *)
(***************************************************************************)
\* Python None, where a string is expected
None == <<"None">>

\* if x:  (neither None nor the empty string)
Truthy(s) == s # None /\ s # <<>>

UpperToLower ==
    ("A" :> "a") @@ ("B" :> "b") @@ ("C" :> "c") @@ ("D" :> "d") @@ ("E" :> "e") @@ ("F" :> "f")
    @@ ("G" :> "g") @@ ("H" :> "h") @@ ("I" :> "i") @@ ("J" :> "j") @@ ("K" :> "k") @@ ("L" :> "l")
    @@ ("M" :> "m") @@ ("N" :> "n") @@ ("O" :> "o") @@ ("P" :> "p") @@ ("Q" :> "q") @@ ("R" :> "r")
    @@ ("S" :> "s") @@ ("T" :> "t") @@ ("U" :> "u") @@ ("V" :> "v") @@ ("W" :> "w") @@ ("X" :> "x")
    @@ ("Y" :> "y") @@ ("Z" :> "z")

LowerChar(c) == IF c \in DOMAIN UpperToLower THEN UpperToLower[c] ELSE c

\* str.lower()
Lower(s) == [i \in 1..Len(s) |-> LowerChar(s[i])]

Whitespace == {" ", "\t", "\n", "\r"}

\* str.strip()
Strip(s) ==
    LET keep == {i \in 1..Len(s) : s[i] \notin Whitespace}
        first == CHOOSE i \in keep : \A j \in keep : i <= j
        last == CHOOSE i \in keep : \A j \in keep : j <= i
    IN IF keep = {} THEN <<>> ELSE SubSeq(s, first, last)

\* needle in hay
Contains(hay, needle) ==
    \E i \in 0..(Len(hay) - Len(needle)) : SubSeq(hay, i + 1, i + Len(needle)) = needle

\* dict.get(k, default)
DictGet(d, k, default) == IF k \in DOMAIN d THEN d[k] ELSE default

(***************************************************************************)
(* Reference tables (sanctions_data.py).  Of an entry, the fields the      *)
(* evaluator reads are kept.                                               *)
(***************************************************************************)
SANCTIONED_COUNTRIES ==
    (<<"i", "r", "a", "n">> :>
        [name |-> "Iran", status |-> "COMPREHENSIVE_SANCTIONS", risk_level |-> "CRITICAL", blocked |-> TRUE,
         details |-> "Comprehensive trade embargo. Virtually all transactions prohibited.",
         sources |-> <<"https://ofac.treasury.gov/sanctions-programs-and-country-information/iran-sanctions",
                       "https://www.un.org/securitycouncil/sanctions/2231">>])
    @@ (<<"n", "o", "r", "t", "h", " ", "k", "o", "r", "e", "a">> :>
        [name |-> "North Korea", status |-> "COMPREHENSIVE_SANCTIONS", risk_level |-> "CRITICAL", blocked |-> TRUE,
         details |-> "Complete trade embargo. All transactions prohibited.",
         sources |-> <<"https://ofac.treasury.gov/sanctions-programs-and-country-information/north-korea-sanctions">>])
    @@ (<<"s", "y", "r", "i", "a">> :>
        [name |-> "Syria", status |-> "COMPREHENSIVE_SANCTIONS", risk_level |-> "CRITICAL", blocked |-> TRUE,
         details |-> "Comprehensive sanctions due to Syrian government actions.",
         sources |-> <<"https://ofac.treasury.gov/sanctions-programs-and-country-information/syria-sanctions">>])
    @@ (<<"c", "u", "b", "a">> :>
        [name |-> "Cuba", status |-> "COMPREHENSIVE_SANCTIONS", risk_level |-> "CRITICAL", blocked |-> TRUE,
         details |-> "US embargo on Cuba. Comprehensive trade restrictions.",
         sources |-> <<"https://ofac.treasury.gov/sanctions-programs-and-country-information/cuba-sanctions">>])
    @@ (<<"r", "u", "s", "s", "i", "a">> :>
        [name |-> "Russia", status |-> "SECTORAL_SANCTIONS", risk_level |-> "HIGH", blocked |-> FALSE,
         details |-> "Sectoral sanctions targeting financial, energy, and defense sectors. Not comprehensive embargo.",
         sources |-> <<"https://ofac.treasury.gov/sanctions-programs-and-country-information/ukraine-russia-related-sanctions">>])
    @@ (<<"b", "e", "l", "a", "r", "u", "s">> :>
        [name |-> "Belarus", status |-> "SECTORAL_SANCTIONS", risk_level |-> "HIGH", blocked |-> FALSE,
         details |-> "Targeted sanctions on specific sectors and entities.",
         sources |-> <<"https://ofac.treasury.gov/sanctions-programs-and-country-information/belarus-sanctions">>])
    @@ (<<"v", "e", "n", "e", "z", "u", "e", "l", "a">> :>
        [name |-> "Venezuela", status |-> "SECTORAL_SANCTIONS", risk_level |-> "HIGH", blocked |-> FALSE,
         details |-> "Targeted sanctions on government officials and petroleum sector.",
         sources |-> <<"https://ofac.treasury.gov/sanctions-programs-and-country-information/venezuela-related-sanctions">>])
    @@ (<<"m", "y", "a", "n", "m", "a", "r">> :>
        [name |-> "Myanmar (Burma)", status |-> "SECTORAL_SANCTIONS", risk_level |-> "HIGH", blocked |-> FALSE,
         details |-> "Targeted sanctions on military regime and associates.",
         sources |-> <<"https://ofac.treasury.gov/sanctions-programs-and-country-information/burma-sanctions">>])
    @@ (<<"b", "u", "r", "m", "a">> :>
        [name |-> "Myanmar (Burma)", status |-> "SECTORAL_SANCTIONS", risk_level |-> "HIGH", blocked |-> FALSE,
         details |-> "Targeted sanctions on military regime and associates.",
         sources |-> <<"https://ofac.treasury.gov/sanctions-programs-and-country-information/burma-sanctions">>])
    @@ (<<"c", "r", "i", "m", "e", "a">> :>
        [name |-> "Crimea Region of Ukraine", status |-> "REGIONAL_SANCTIONS", risk_level |-> "CRITICAL", blocked |-> TRUE,
         details |-> "Comprehensive sanctions on Crimea region. New investment prohibited.",
         sources |-> <<"https://ofac.treasury.gov/sanctions-programs-and-country-information/ukraine-russia-related-sanctions">>])
    @@ (<<"d", "o", "n", "e", "t", "s", "k">> :>
        [name |-> "Donetsk Region of Ukraine", status |-> "REGIONAL_SANCTIONS", risk_level |-> "CRITICAL", blocked |-> TRUE,
         details |-> "Sanctions on so-called Donetsk People's Republic.",
         sources |-> <<"https://ofac.treasury.gov/sanctions-programs-and-country-information/ukraine-russia-related-sanctions">>])
    @@ (<<"l", "u", "h", "a", "n", "s", "k">> :>
        [name |-> "Luhansk Region of Ukraine", status |-> "REGIONAL_SANCTIONS", risk_level |-> "CRITICAL", blocked |-> TRUE,
         details |-> "Sanctions on so-called Luhansk People's Republic.",
         sources |-> <<"https://ofac.treasury.gov/sanctions-programs-and-country-information/ukraine-russia-related-sanctions">>])
    @@ (<<"s", "u", "d", "a", "n">> :>
        [name |-> "Sudan", status |-> "SECTORAL_SANCTIONS", risk_level |-> "MEDIUM", blocked |-> FALSE,
         details |-> "Targeted sanctions related to Darfur conflict.",
         sources |-> <<"https://ofac.treasury.gov/sanctions-programs-and-country-information/sudan-sanctions">>])
    @@ (<<"s", "o", "u", "t", "h", " ", "s", "u", "d", "a", "n">> :>
        [name |-> "South Sudan", status |-> "SECTORAL_SANCTIONS", risk_level |-> "MEDIUM", blocked |-> FALSE,
         details |-> "Targeted sanctions on individuals undermining peace.",
         sources |-> <<"https://ofac.treasury.gov/sanctions-programs-and-country-information/south-sudan-sanctions">>])
    @@ (<<"z", "i", "m", "b", "a", "b", "w", "e">> :>
        [name |-> "Zimbabwe", status |-> "SECTORAL_SANCTIONS", risk_level |-> "MEDIUM", blocked |-> FALSE,
         details |-> "Targeted sanctions on specific individuals and entities.",
         sources |-> <<"https://ofac.treasury.gov/sanctions-programs-and-country-information/zimbabwe-sanctions">>])
    @@ (<<"l", "e", "b", "a", "n", "o", "n">> :>
        [name |-> "Lebanon", status |-> "TARGETED_SANCTIONS", risk_level |-> "MEDIUM", blocked |-> FALSE,
         details |-> "Targeted sanctions related to Hezbollah. Normal trade generally permitted.",
         sources |-> <<"https://ofac.treasury.gov/sanctions-programs-and-country-information/lebanon-related-sanctions">>])
    @@ (<<"i", "r", "a", "q">> :>
        [name |-> "Iraq", status |-> "PARTIAL_SANCTIONS", risk_level |-> "MEDIUM", blocked |-> FALSE,
         details |-> "Targeted sanctions. Normal trade generally permitted with restrictions.",
         sources |-> <<"https://ofac.treasury.gov/sanctions-programs-and-country-information/iraq-related-sanctions">>])
    @@ (<<"s", "o", "m", "a", "l", "i", "a">> :>
        [name |-> "Somalia", status |-> "TARGETED_SANCTIONS", risk_level |-> "MEDIUM", blocked |-> FALSE,
         details |-> "Arms embargo and targeted sanctions. Normal trade may be permitted.",
         sources |-> <<"https://www.un.org/securitycouncil/sanctions/751">>])
    @@ (<<"l", "i", "b", "y", "a">> :>
        [name |-> "Libya", status |-> "TARGETED_SANCTIONS", risk_level |-> "MEDIUM", blocked |-> FALSE,
         details |-> "Targeted sanctions. Arms embargo. Normal trade may be permitted with due diligence.",
         sources |-> <<"https://ofac.treasury.gov/sanctions-programs-and-country-information/libya-sanctions">>])
    @@ (<<"y", "e", "m", "e", "n">> :>
        [name |-> "Yemen", status |-> "TARGETED_SANCTIONS", risk_level |-> "MEDIUM", blocked |-> FALSE,
         details |-> "Targeted sanctions. Arms embargo. Humanitarian exceptions.",
         sources |-> <<"https://www.un.org/securitycouncil/sanctions/2140">>])
    @@ (<<"a", "f", "g", "h", "a", "n", "i", "s", "t", "a", "n">> :>
        [name |-> "Afghanistan", status |-> "TARGETED_SANCTIONS", risk_level |-> "HIGH", blocked |-> FALSE,
         details |-> "Targeted sanctions on Taliban. Humanitarian trade may be permitted.",
         sources |-> <<"https://ofac.treasury.gov/sanctions-programs-and-country-information/afghanistan-related-sanctions">>])

HIGH_RISK_PORTS ==
    (<<"b", "a", "n", "d", "a", "r", " ", "a", "b", "b", "a", "s">> :>
        [country |-> "Iran", risk |-> "CRITICAL", reason |-> "Major Iranian port under US sanctions"])
    @@ (<<"b", "u", "s", "h", "e", "h", "r">> :>
        [country |-> "Iran", risk |-> "CRITICAL", reason |-> "Iranian port under sanctions"])
    @@ (<<"c", "h", "a", "b", "a", "h", "a", "r">> :>
        [country |-> "Iran", risk |-> "CRITICAL", reason |-> "Iranian port under sanctions"])
    @@ (<<"n", "a", "m", "p", "o">> :>
        [country |-> "North Korea", risk |-> "CRITICAL", reason |-> "North Korean port - comprehensive sanctions"])
    @@ (<<"c", "h", "o", "n", "g", "j", "i", "n">> :>
        [country |-> "North Korea", risk |-> "CRITICAL", reason |-> "North Korean port - comprehensive sanctions"])
    @@ (<<"l", "a", "t", "a", "k", "i", "a">> :>
        [country |-> "Syria", risk |-> "CRITICAL", reason |-> "Syrian port under sanctions"])
    @@ (<<"t", "a", "r", "t", "u", "s">> :>
        [country |-> "Syria", risk |-> "CRITICAL", reason |-> "Syrian port under sanctions"])
    @@ (<<"n", "o", "v", "o", "r", "o", "s", "s", "i", "y", "s", "k">> :>
        [country |-> "Russia", risk |-> "HIGH", reason |-> "Russian port - sectoral sanctions may apply"])
    @@ (<<"s", "t", ".", " ", "p", "e", "t", "e", "r", "s", "b", "u", "r", "g">> :>
        [country |-> "Russia", risk |-> "HIGH", reason |-> "Russian port - sectoral sanctions may apply"])
    @@ (<<"v", "l", "a", "d", "i", "v", "o", "s", "t", "o", "k">> :>
        [country |-> "Russia", risk |-> "HIGH", reason |-> "Russian port - sectoral sanctions may apply"])
    @@ (<<"s", "e", "v", "a", "s", "t", "o", "p", "o", "l">> :>
        [country |-> "Crimea", risk |-> "CRITICAL", reason |-> "Crimean port - comprehensive sanctions"])

DUAL_USE_PRODUCTS ==
    <<<<"p", "e", "t", "r", "o", "c", "h", "e", "m", "i", "c", "a", "l">>,
      <<"c", "h", "e", "m", "i", "c", "a", "l">>,
      <<"n", "u", "c", "l", "e", "a", "r">>,
      <<"m", "i", "l", "i", "t", "a", "r", "y">>,
      <<"d", "e", "f", "e", "n", "s", "e">>,
      <<"w", "e", "a", "p", "o", "n", "s">>,
      <<"m", "i", "s", "s", "i", "l", "e">>,
      <<"d", "r", "o", "n", "e">>,
      <<"s", "u", "r", "v", "e", "i", "l", "l", "a", "n", "c", "e">>,
      <<"e", "n", "c", "r", "y", "p", "t", "i", "o", "n">>,
      <<"s", "e", "m", "i", "c", "o", "n", "d", "u", "c", "t", "o", "r">>,
      <<"s", "u", "p", "e", "r", "c", "o", "m", "p", "u", "t", "e", "r">>,
      <<"a", "i", "r", "c", "r", "a", "f", "t">>,
      <<"h", "e", "l", "i", "c", "o", "p", "t", "e", "r">>,
      <<"t", "a", "n", "k">>,
      <<"a", "m", "m", "u", "n", "i", "t", "i", "o", "n">>>>

\* what dict.get returns for a key the table does not hold (None)
NoEntry == [name |-> "", status |-> "", risk_level |-> "", blocked |-> FALSE,
            details |-> "", sources |-> <<>>]

NoPort == [country |-> "", risk |-> "", reason |-> ""]

\* the lookup key lower-cased but not trimmed
normalize_country_name_untrimmed(country) ==
    IF ~Truthy(country) THEN <<>> ELSE Lower(country)

normalize_country_name(country) ==
    IF ~Truthy(country) THEN <<>> ELSE Strip(Lower(country))

check_country_sanctions(country) ==
    LET normalized == normalize_country_name(country)
    IN DictGet(SANCTIONED_COUNTRIES, normalized, NoEntry)

check_port_sanctions(port) ==
    IF ~Truthy(port) THEN NoPort
    ELSE LET normalized == Strip(Lower(port))
         IN DictGet(HIGH_RISK_PORTS, normalized, NoPort)

\* the keyword test on the description as given, without lower()
is_dual_use_product_case_sensitive(product_description) ==
    IF ~Truthy(product_description) THEN FALSE
    ELSE \E k \in 1..Len(DUAL_USE_PRODUCTS) : Contains(product_description, DUAL_USE_PRODUCTS[k])

is_dual_use_product(product_description) ==
    IF ~Truthy(product_description) THEN FALSE
    ELSE LET product_lower == Lower(product_description)
         IN \E k \in 1..Len(DUAL_USE_PRODUCTS) : Contains(product_lower, DUAL_USE_PRODUCTS[k])

(***************************************************************************)
(* Input records of the evaluator.                                         *)
(***************************************************************************)
\* how many of the sample strings below a run draws its inputs from
NumCountrySamples == 12

NumPortSamples == 8

NumProductSamples == 5

CountrySamples ==
    <<None,
      <<>>,
      <<"U", "n", "i", "t", "e", "d", " ", "A", "r", "a", "b", " ", "E", "m", "i", "r", "a", "t", "e", "s">>,
      <<"I", "r", "a", "n">>,
      <<" ", "I", "R", "A", "N", " ">>,
      <<"R", "u", "s", "s", "i", "a">>,
      <<"S", "u", "d", "a", "n">>,
      <<"C", "r", "i", "m", "e", "a">>,
      <<"A", "f", "g", "h", "a", "n", "i", "s", "t", "a", "n">>,
      <<"S", "i", "n", "g", "a", "p", "o", "r", "e">>,
      <<" ", " ">>,
      <<"N", "o", "r", "t", "h", " ", "K", "o", "r", "e", "a">>,
      <<"S", "y", "r", "i", "a">>,
      <<"C", "u", "b", "a">>,
      <<"B", "e", "l", "a", "r", "u", "s">>,
      <<"V", "e", "n", "e", "z", "u", "e", "l", "a">>,
      <<"M", "y", "a", "n", "m", "a", "r">>,
      <<"B", "U", "R", "M", "A">>,
      <<"D", "o", "n", "e", "t", "s", "k">>,
      <<"L", "u", "h", "a", "n", "s", "k">>,
      <<"S", "o", "u", "t", "h", " ", "S", "u", "d", "a", "n">>,
      <<"Z", "i", "m", "b", "a", "b", "w", "e">>,
      <<"L", "e", "b", "a", "n", "o", "n">>,
      <<"I", "r", "a", "q">>,
      <<"S", "o", "m", "a", "l", "i", "a">>,
      <<"L", "i", "b", "y", "a">>,
      <<"Y", "e", "m", "e", "n">>,
      <<"r", "u", "s", "s", "i", "a", "\n">>>>

PortSamples ==
    <<None,
      <<>>,
      <<"J", "e", "b", "e", "l", " ", "A", "l", "i", ",", " ", "D", "u", "b", "a", "i">>,
      <<"B", "a", "n", "d", "a", "r", " ", "A", "b", "b", "a", "s">>,
      <<" ", "b", "a", "n", "d", "a", "r", " ", "a", "b", "b", "a", "s">>,
      <<"N", "o", "v", "o", "r", "o", "s", "s", "i", "y", "s", "k">>,
      <<"S", "e", "v", "a", "s", "t", "o", "p", "o", "l">>,
      <<"S", "i", "n", "g", "a", "p", "o", "r", "e", " ", "P", "o", "r", "t">>,
      <<"B", "u", "s", "h", "e", "h", "r">>,
      <<"C", "h", "a", "b", "a", "h", "a", "r">>,
      <<"N", "a", "m", "p", "o">>,
      <<"C", "h", "o", "n", "g", "j", "i", "n">>,
      <<"L", "a", "t", "a", "k", "i", "a">>,
      <<"T", "a", "r", "t", "u", "s">>,
      <<"S", "t", ".", " ", "P", "e", "t", "e", "r", "s", "b", "u", "r", "g">>,
      <<"V", "L", "A", "D", "I", "V", "O", "S", "T", "O", "K">>>>

ProductSamples ==
    <<None,
      <<"E", "l", "e", "c", "t", "r", "o", "n", "i", "c", "s">>,
      <<"m", "i", "l", "i", "t", "a", "r", "y", " ", "d", "r", "o", "n", "e", " ", "c", "o", "m", "p", "o", "n", "e", "n", "t", "s">>,
      <<"M", "I", "L", "I", "T", "A", "R", "Y", " ", "D", "r", "o", "n", "e", " ", "p", "a", "r", "t", "s">>,
      <<>>,
      <<"I", "n", "d", "u", "s", "t", "r", "i", "a", "l", " ", "e", "q", "u", "i", "p", "m", "e", "n", "t">>,
      <<"P", "e", "t", "r", "o", "c", "h", "e", "m", "i", "c", "a", "l", " ", "P", "r", "o", "d", "u", "c", "t", "s">>,
      <<"W", "a", "t", "e", "r", " ", "T", "A", "N", "K">>>>

CountryInputs == {CountrySamples[i] : i \in 1..NumCountrySamples}

PortInputs == {PortSamples[i] : i \in 1..NumPortSamples}

ProductInputs == {ProductSamples[i] : i \in 1..NumProductSamples}

\* a record as the callers build it: a section or a key may be missing, a
\* value may be None
LcData(b, i, pl, pd, pr) ==
    (IF b = None THEN <<>> ELSE ("exporter_info" :> ("beneficiary_country" :> b)))
    @@ ("lc_details" :> (IF i = None THEN <<>> ELSE ("issuing_bank_country" :> i)))
    @@ ("shipment_details" :>
            [port_of_loading |-> pl, port_of_destination |-> pd, product_description |-> pr])

(***************************************************************************)
(* SanctionsAgent.check_lc_compliance, one step per check.                 *)
(***************************************************************************)
\* the sources lists of the table as the module is loaded
TableSources == [k \in DOMAIN SANCTIONED_COUNTRIES |-> SANCTIONED_COUNTRIES[k].sources]

\* "sources": []  -- a new list, owned by the verdict
FreshList == <<"result['sources']">>

\* result['sources'] = entry['sources']: the verdict names the table's list
ListAfterExtend_rebound(list, key) == key

\* result['sources'].extend(entry['sources']): the same list object as before
ListAfterExtend(list, key) == list

\* the lists of the table after the list a verdict names has been extended
TableAfterExtend(table, list, added) ==
    IF list = FreshList THEN table ELSE [table EXCEPT ![list] = @ \o added]

\* check_country_sanctions on the table as it is now
CurrentEntry(table, country) ==
    LET entry == check_country_sanctions(country)
    IN IF entry = NoEntry THEN NoEntry
       ELSE [entry EXCEPT !.sources = table[normalize_country_name(country)]]

\* the verdict as first built; checked_at, details, lc_reference and
\* check_method are presentation only and are left out
InitialResult ==
    [compliant |-> TRUE, risk_level |-> "LOW", blocked |-> FALSE,
     reason |-> [text |-> "", issues |-> <<>>], sources |-> <<>>, recommendations |-> ""]

\* f"{rule} ({subject}) {tail}"
Issue(rule, subject, tail) == [rule |-> rule, subject |-> subject, tail |-> tail]

\* the beneficiary step without its assignment to blocked
AfterBeneficiary_unblocked(res, entry) ==
    [res EXCEPT !.risk_level = entry.risk_level,
                !.compliant = FALSE,
                !.sources = @ \o entry.sources]

AfterBeneficiary(res, entry) ==
    [res EXCEPT !.risk_level = entry.risk_level,
                !.blocked = entry.blocked,
                !.compliant = FALSE,
                !.sources = @ \o entry.sources]

\* the issuing step written like the beneficiary step: blocked taken from the entry
AfterIssuing_blocked(res, entry) ==
    [res EXCEPT !.risk_level = IF entry.risk_level = "CRITICAL" THEN "CRITICAL"
                               ELSE IF @ # "CRITICAL" THEN entry.risk_level
                               ELSE @,
                !.blocked = entry.blocked,
                !.compliant = FALSE,
                !.sources = @ \o entry.sources]

\* the issuing entry's level assigned without looking at the current level
AfterIssuing_assign(res, entry) ==
    [res EXCEPT !.risk_level = entry.risk_level,
                !.compliant = FALSE,
                !.sources = @ \o entry.sources]

AfterIssuing(res, entry) ==
    [res EXCEPT !.risk_level = IF entry.risk_level = "CRITICAL" THEN "CRITICAL"
                               ELSE IF @ # "CRITICAL" THEN entry.risk_level
                               ELSE @,
                !.compliant = FALSE,
                !.sources = @ \o entry.sources]

\* a CRITICAL destination port that raises the level and forgets blocked
AfterDestination_risk_only(res, port) ==
    [res EXCEPT !.risk_level = IF port.risk = "CRITICAL" THEN "CRITICAL" ELSE @,
                !.compliant = FALSE]

AfterDestination(res, port) ==
    [res EXCEPT !.risk_level = IF port.risk = "CRITICAL" THEN "CRITICAL" ELSE @,
                !.blocked = IF port.risk = "CRITICAL" THEN TRUE ELSE @,
                !.compliant = FALSE]

\* the loading step written like the destination step: the port's own risk counts
AfterLoading_port_risk(res, port) ==
    [res EXCEPT !.risk_level = IF port.risk = "CRITICAL" THEN "CRITICAL"
                               ELSE IF @ # "CRITICAL" THEN "HIGH" ELSE @,
                !.blocked = IF port.risk = "CRITICAL" THEN TRUE ELSE @]

\* the loading step with the destination step's "result['compliant'] = False"
AfterLoading_noncompliant(res, port) ==
    [res EXCEPT !.risk_level = IF @ # "CRITICAL" THEN "HIGH" ELSE @,
                !.compliant = FALSE]

\* HIGH assigned without the test for CRITICAL
AfterLoading_assign(res, port) ==
    [res EXCEPT !.risk_level = "HIGH"]

AfterLoading(res, port) ==
    [res EXCEPT !.risk_level = IF @ # "CRITICAL" THEN "HIGH" ELSE @]

AfterDualUse(res) ==
    [res EXCEPT !.risk_level = IF @ = "LOW" THEN "MEDIUM" ELSE @]

CANNOT_PROCEED == "Transaction CANNOT proceed. Contact compliance team."

MANUAL_REVIEW == "Manual compliance review required before proceeding."

PROCEED_WITH_CAUTION == "Proceed with caution. Verify export control requirements."

CAN_PROCEED == "Transaction can proceed. Standard due diligence recommended."

NO_SANCTIONS == "No sanctions detected. Transaction appears compliant."

\* the final response with "elif risk_level in ['HIGH', 'CRITICAL']"
BuildResponse_high_or_critical(res, iss) ==
    IF iss # <<>>
    THEN [res EXCEPT !.reason = [text |-> "", issues |-> iss],
                     !.recommendations =
                         IF res.blocked THEN CANNOT_PROCEED
                         ELSE IF res.risk_level \in {"HIGH", "CRITICAL"} THEN MANUAL_REVIEW
                         ELSE PROCEED_WITH_CAUTION]
    ELSE [res EXCEPT !.reason = [text |-> NO_SANCTIONS, issues |-> <<>>],
                     !.recommendations = CAN_PROCEED]

\* the final response with "if issues is not None:", true of every list
BuildResponse_not_none(res, iss) ==
    [res EXCEPT !.reason = [text |-> "", issues |-> iss],
                !.recommendations =
                    IF res.blocked THEN CANNOT_PROCEED
                    ELSE IF res.risk_level = "HIGH" THEN MANUAL_REVIEW
                    ELSE PROCEED_WITH_CAUTION]

\* the final response: "; ".join(issues) and the recommendation
BuildResponse(res, iss) ==
    IF iss # <<>>
    THEN [res EXCEPT !.reason = [text |-> "", issues |-> iss],
                     !.recommendations =
                         IF res.blocked THEN CANNOT_PROCEED
                         ELSE IF res.risk_level = "HIGH" THEN MANUAL_REVIEW
                         ELSE PROCEED_WITH_CAUTION]
    ELSE [res EXCEPT !.reason = [text |-> NO_SANCTIONS, issues |-> <<>>],
                     !.recommendations = CAN_PROCEED]

VARIABLES impl, arg_provided, arg_collected, heap, merged, mpc,
          section_iter, section, field_iter, merge_result, round, first_result

mvars == <<impl, arg_provided, arg_collected, heap, merged, mpc,
           section_iter, section, field_iter, merge_result, round, first_result>>

VARIABLES lc_data, result, issues, cpc

\* the sources lists of the entries of SANCTIONED_COUNTRIES, which live as
\* long as the process, and the list object that result['sources'] names
VARIABLES table_sources, result_sources

tvars == <<table_sources, result_sources>>

cvars == <<lc_data, result, issues, cpc, tvars>>

VARIABLES env, request, hpc, forwarded, processed, response

hvars == <<env, request, hpc, forwarded, processed, response>>

VARIABLES provided_fields, section_idx, item_idx, missing_fields_info, report,
          spc, raw_label, resolved

svars == <<provided_fields, section_idx, item_idx, missing_fields_info, report,
           spc, raw_label, resolved>>

\* final_status of the OCR endpoint's response
VARIABLE final_status

ovars == <<final_status>>

xvars == <<hvars, svars, ovars>>

vars == <<mvars, cvars, xvars>>

\* no HTTP request in progress
\* final_status is not assigned yet
UNSET == "<unset>"

IdleOcr == final_status = UNSET

IdleHttp ==
    /\ env = <<>>
    /\ request = <<>>
    /\ hpc = "idle"
    /\ forwarded = FALSE
    /\ processed = FALSE
    /\ response = 0

\* no call on the schema in progress
IdleSchema ==
    /\ provided_fields = <<>>
    /\ section_idx = 1
    /\ item_idx = 1
    /\ missing_fields_info = <<>>
    /\ report = <<>>
    /\ spc = "idle"
    /\ raw_label = <<>>
    /\ resolved = <<>>

\* no call of the evaluator in progress
IdleCompliance ==
    /\ lc_data = <<>>
    /\ result = InitialResult
    /\ issues = <<>>
    /\ cpc = "idle"
    /\ table_sources = TableSources
    /\ result_sources = FreshList

\* no merge call in progress
IdleMerge ==
    /\ impl = "merge_collected_data"
    /\ arg_provided = <<>>
    /\ arg_collected = <<>>
    /\ heap = <<>>
    /\ merged = NoRef
    /\ mpc = "idle"
    /\ section_iter = {}
    /\ section = ""
    /\ field_iter = {}
    /\ merge_result = <<>>
    /\ round = 1
    /\ first_result = <<>>

\* entry of a merge call: the two argument records live on the heap
StartMerge ==
    /\ heap = Store("provided", arg_provided) @@ Store("collected", arg_collected)
    /\ merged = NoRef
    /\ mpc = "copy"
    /\ section_iter = {}
    /\ section = ""
    /\ field_iter = {}
    /\ merge_result = <<>>
    /\ round = 1
    /\ first_result = <<>>

InitMerge ==
    /\ impl \in Impls
    /\ arg_provided \in LCRecords
    /\ arg_collected \in LCRecords
    /\ StartMerge
    /\ IdleCompliance
    /\ IdleHttp
    /\ IdleSchema
    /\ IdleOcr

\* merged = copy.deepcopy(provided_fields)
CopyProvided ==
    /\ mpc = "copy"
    /\ heap' = DeepCopy(heap, PROVIDED, "merged")
    /\ merged' = <<"merged">>
    /\ section_iter' = DOMAIN heap[COLLECTED]
    /\ mpc' = "for_section"
    /\ UNCHANGED <<impl, arg_provided, arg_collected, section, field_iter, merge_result, round, first_result, cvars, xvars>>

\* the loop head with "elif isinstance(fields, dict)": a section that was just
\* created is left empty
NextSection_elif ==
    /\ mpc = "for_section"
    /\ \E s \in section_iter :
        LET fields == heap[COLLECTED][s]
            created == s \notin DOMAIN heap[merged]
            entered == ~created /\ fields.kind = "ref" /\ DOMAIN heap[fields.ref] # {}
        IN /\ heap' = IF created THEN NewDict(heap, merged, s) ELSE heap
           /\ section_iter' = section_iter \ {s}
           /\ section' = s
           /\ field_iter' = IF entered THEN DOMAIN heap[fields.ref] ELSE {}
           /\ mpc' = IF entered THEN "for_field" ELSE "for_section"
    /\ UNCHANGED <<impl, arg_provided, arg_collected, merged, merge_result, round, first_result, cvars, xvars>>

\* for section, fields in collected.items():
\*     if section not in merged: merged[section] = {}
\*     if isinstance(fields, dict): (enter the loop over fields.items())
NextSection ==
    /\ mpc = "for_section"
    /\ \E s \in section_iter :
        LET fields == heap[COLLECTED][s]
            entered == fields.kind = "ref" /\ DOMAIN heap[fields.ref] # {}
        IN /\ heap' = IF s \notin DOMAIN heap[merged] THEN NewDict(heap, merged, s)
                      ELSE heap
           /\ section_iter' = section_iter \ {s}
           /\ section' = s
           /\ field_iter' = IF entered THEN DOMAIN heap[fields.ref] ELSE {}
           /\ mpc' = IF entered THEN "for_field" ELSE "for_section"
    /\ UNCHANGED <<impl, arg_provided, arg_collected, merged, merge_result, round, first_result, cvars, xvars>>

\* for field, value in fields.items():
\*     if <condition of the implementation>: merged[section][field] = value
NextField ==
    /\ mpc = "for_field"
    /\ \E f \in field_iter :
        LET value == heap[heap[COLLECTED][section].ref][f]
            target == heap[merged][section].ref
        IN /\ heap' = IF ShouldAssign(impl, heap[target], f, value)
                      THEN SetItem(heap, target, f, value) ELSE heap
           /\ field_iter' = field_iter \ {f}
           /\ mpc' = IF field_iter \ {f} = {} THEN "for_section" ELSE "for_field"
    /\ UNCHANGED <<impl, arg_provided, arg_collected, merged, section_iter, section, merge_result, round, first_result, cvars, xvars>>

\* return merged
ReturnMerged ==
    /\ mpc = "for_section"
    /\ section_iter = {}
    /\ merge_result' = Deref(heap, merged)
    /\ mpc' = "done"
    /\ UNCHANGED <<impl, arg_provided, arg_collected, heap, merged, section_iter, section, field_iter, round, first_result, cvars, xvars>>

\* the returned record is merged with the same collected record once more:
\* merge(merge(A, B), B)
CallAgain ==
    /\ mpc = "done"
    /\ round = 1
    /\ round' = 2
    /\ first_result' = merge_result
    /\ heap' = Store("provided", merge_result) @@ Store("collected", arg_collected)
    /\ merged' = NoRef
    /\ mpc' = "copy"
    /\ section_iter' = {}
    /\ section' = ""
    /\ field_iter' = {}
    /\ merge_result' = <<>>
    /\ UNCHANGED <<impl, arg_provided, arg_collected, cvars, xvars>>

NextMerge == CopyProvided \/ NextSection \/ NextField \/ ReturnMerged \/ CallAgain

SpecMerge == InitMerge /\ [][NextMerge]_vars

(***************************************************************************)
(* The evaluator's steps.                                                  *)
(***************************************************************************)
beneficiary_country ==
    DictGet(DictGet(lc_data, "exporter_info", <<>>), "beneficiary_country", None)

issuing_country ==
    DictGet(DictGet(lc_data, "lc_details", <<>>), "issuing_bank_country", None)

port_loading ==
    DictGet(DictGet(lc_data, "shipment_details", <<>>), "port_of_loading", None)

port_destination ==
    DictGet(DictGet(lc_data, "shipment_details", <<>>), "port_of_destination", None)

product ==
    DictGet(DictGet(lc_data, "shipment_details", <<>>), "product_description", None)

\* entry of a call: the fields are extracted, the verdict is the default one
StartCompliance ==
    /\ result = InitialResult
    /\ result_sources = FreshList
    /\ issues = <<>>
    /\ cpc = "check_beneficiary"

InitCompliance ==
    /\ \E b \in CountryInputs, i \in CountryInputs, pl \in PortInputs,
          pd \in PortInputs, pr \in ProductInputs :
            lc_data = LcData(b, i, pl, pd, pr)
    /\ table_sources = TableSources
    /\ StartCompliance
    /\ IdleMerge
    /\ IdleHttp
    /\ IdleSchema
    /\ IdleOcr

\* # Check beneficiary country
CheckBeneficiary ==
    /\ cpc = "check_beneficiary"
    /\ LET country_sanctions == CurrentEntry(table_sources, beneficiary_country)
       IN IF Truthy(beneficiary_country) /\ country_sanctions # NoEntry
          THEN /\ issues' = Append(issues, Issue("Beneficiary country",
                                country_sanctions.name, country_sanctions.status))
               /\ result' = AfterBeneficiary(result, country_sanctions)
               /\ table_sources' = TableAfterExtend(table_sources, result_sources,
                                                    country_sanctions.sources)
               /\ result_sources' = ListAfterExtend(result_sources,
                                        normalize_country_name(beneficiary_country))
          ELSE UNCHANGED <<issues, result, tvars>>
    /\ cpc' = "check_issuing"
    /\ UNCHANGED <<lc_data, mvars, xvars>>

\* the issuing check with an early exit once the verdict is blocked
CheckIssuing_short_circuit ==
    /\ cpc = "check_issuing"
    /\ IF result.blocked
       THEN /\ cpc' = "build_response"
            /\ UNCHANGED <<issues, result, tvars>>
       ELSE /\ cpc' = "check_destination"
            /\ LET issuing_sanctions == CurrentEntry(table_sources, issuing_country)
               IN IF Truthy(issuing_country) /\ issuing_sanctions # NoEntry
                  THEN /\ issues' = Append(issues, Issue("Issuing bank country",
                                        issuing_sanctions.name, issuing_sanctions.status))
                       /\ result' = AfterIssuing(result, issuing_sanctions)
                       /\ table_sources' = TableAfterExtend(table_sources, result_sources,
                                                            issuing_sanctions.sources)
                       /\ result_sources' = ListAfterExtend(result_sources,
                                                normalize_country_name(issuing_country))
                  ELSE UNCHANGED <<issues, result, tvars>>
    /\ UNCHANGED <<lc_data, mvars, xvars>>

\* # Check issuing country
CheckIssuing ==
    /\ cpc = "check_issuing"
    /\ LET issuing_sanctions == CurrentEntry(table_sources, issuing_country)
       IN IF Truthy(issuing_country) /\ issuing_sanctions # NoEntry
          THEN /\ issues' = Append(issues, Issue("Issuing bank country",
                                issuing_sanctions.name, issuing_sanctions.status))
               /\ result' = AfterIssuing(result, issuing_sanctions)
               /\ table_sources' = TableAfterExtend(table_sources, result_sources,
                                                    issuing_sanctions.sources)
               /\ result_sources' = ListAfterExtend(result_sources,
                                        normalize_country_name(issuing_country))
          ELSE UNCHANGED <<issues, result, tvars>>
    /\ cpc' = "check_destination"
    /\ UNCHANGED <<lc_data, mvars, xvars>>

\* # Check port of destination
CheckDestination ==
    /\ cpc = "check_destination"
    /\ LET port_sanctions == check_port_sanctions(port_destination)
       IN IF Truthy(port_destination) /\ port_sanctions # NoPort
          THEN /\ issues' = Append(issues, Issue("Port of destination",
                                port_destination, port_sanctions.reason))
               /\ result' = AfterDestination(result, port_sanctions)
          ELSE UNCHANGED <<issues, result>>
    /\ cpc' = "check_loading"
    /\ UNCHANGED <<lc_data, tvars, mvars, xvars>>

\* # Check port of loading
CheckLoading ==
    /\ cpc = "check_loading"
    /\ LET loading_sanctions == check_port_sanctions(port_loading)
       IN IF Truthy(port_loading) /\ loading_sanctions # NoPort
          THEN /\ issues' = Append(issues, Issue("Port of loading",
                                port_loading, loading_sanctions.reason))
               /\ result' = AfterLoading(result, loading_sanctions)
          ELSE UNCHANGED <<issues, result>>
    /\ cpc' = "check_dual_use"
    /\ UNCHANGED <<lc_data, tvars, mvars, xvars>>

\* # Check for dual-use products
CheckDualUse ==
    /\ cpc = "check_dual_use"
    /\ IF Truthy(product) /\ is_dual_use_product(product)
       THEN /\ issues' = Append(issues, Issue("Product", product,
                                "may be dual-use goods requiring export controls"))
            /\ result' = AfterDualUse(result)
       ELSE UNCHANGED <<issues, result>>
    /\ cpc' = "build_response"
    /\ UNCHANGED <<lc_data, tvars, mvars, xvars>>

\* # Build final response; return result
ReturnResult ==
    /\ cpc = "build_response"
    /\ result' = BuildResponse(result, issues)
    /\ cpc' = "returned"
    /\ UNCHANGED <<lc_data, issues, tvars, mvars, xvars>>

NextCompliance ==
    \/ CheckBeneficiary \/ CheckIssuing \/ CheckDestination
    \/ CheckLoading \/ CheckDualUse \/ ReturnResult

SpecCompliance == InitCompliance /\ [][NextCompliance]_vars

(***************************************************************************)
(* The OCR endpoint: the evaluator is run on the extracted record and the  *)
(* final status is decided from its verdict (ocr_controller.py).           *)
(***************************************************************************)
\* # Step 3: Determine final status
DetermineFinalStatus(sanctions_result) ==
    IF sanctions_result.blocked THEN "DENIED"
    ELSE IF sanctions_result.risk_level \in {"HIGH", "CRITICAL"} /\ ~sanctions_result.compliant
         THEN "REVIEW_REQUIRED"
    ELSE IF sanctions_result.compliant THEN "APPROVED"
    ELSE "PENDING"

\* the steps of the endpoint after check_lc_compliance has returned
extract_letter_of_credit_form ==
    /\ cpc = "returned"
    /\ final_status = UNSET
    /\ final_status' = DetermineFinalStatus(result)
    /\ UNCHANGED <<mvars, cvars, hvars, svars>>

NextOcr == NextCompliance \/ extract_letter_of_credit_form

SpecOcr == InitCompliance /\ [][NextOcr]_vars

(***************************************************************************)
(* A merge call and a call of the evaluator in progress at the same time,  *)
(* their steps interleaved in every way.                                   *)
(***************************************************************************)
ConcurrentRecords ==
    {<<>>,
     ("transaction_role" :> Scalar("Importer (Applicant)"))
        @@ ("shipment_details" :> Dict(("port_of_loading" :> "Karachi")
                                       @@ ("port_of_destination" :> NULL))),
     "shipment_details" :> Dict(("port_of_loading" :> NULL)
                                @@ ("port_of_destination" :> "Jebel Ali")),
     "shipment_details" :> Dict("port_of_destination" :> "Karachi")}

\* Russia or nothing; Sudan or Iran; Bandar Abbas or nothing; a drone or nothing
ConcurrentLcData ==
    {LcData(b, i, pl, None, pr) :
        b \in {None, CountrySamples[6]}, i \in {CountrySamples[7], CountrySamples[4]},
        pl \in {None, PortSamples[4]}, pr \in {None, ProductSamples[3]}}

InitConcurrent ==
    /\ impl \in Impls
    /\ arg_provided \in ConcurrentRecords
    /\ arg_collected \in ConcurrentRecords
    /\ lc_data \in ConcurrentLcData
    /\ table_sources = TableSources
    /\ StartMerge
    /\ StartCompliance
    /\ IdleHttp
    /\ IdleSchema
    /\ IdleOcr

NextConcurrent == NextMerge \/ NextCompliance

SpecConcurrent == InitConcurrent /\ [][NextConcurrent]_vars

(***************************************************************************)
(* One HTTP request through APIKeyMiddleware and the router (main.py,      *)
(* middleware.py, api_key.py, vapi_controller.py).  The request's method   *)
(* is the one of the route.                                                *)
(***************************************************************************)
\* str.split(): the maximal runs of non-whitespace characters
Split(s) ==
    LET starts == {i \in 1..Len(s) : s[i] \notin Whitespace /\ (i = 1 \/ s[i - 1] \in Whitespace)}
        EndOf(i) == CHOOSE e \in i..Len(s) :
                        /\ \A j \in i..e : s[j] \notin Whitespace
                        /\ (e = Len(s) \/ s[e + 1] \in Whitespace)
        Nth(k) == CHOOSE i \in starts : Cardinality({j \in starts : j < i}) = k - 1
    IN [k \in 1..Cardinality(starts) |-> SubSeq(s, Nth(k), EndOf(Nth(k)))]

\* the key returned for every scheme, "Basic" included
get_api_key_from_header_any_scheme(authorization_header) ==
    IF ~Truthy(authorization_header) THEN None
    ELSE LET parts == Split(authorization_header)
         IN IF Len(parts) # 2 THEN None ELSE parts[2]

get_api_key_from_header(authorization_header) ==
    IF ~Truthy(authorization_header) THEN None
    ELSE LET parts == Split(authorization_header)
         IN IF Len(parts) # 2 THEN None
            ELSE IF Lower(parts[1]) = <<"b", "e", "a", "r", "e", "r">> THEN parts[2]
            ELSE None

verify_api_key(provided_key, valid_api_key) ==
    IF ~Truthy(provided_key) THEN FALSE
    ELSE IF ~Truthy(valid_api_key) THEN FALSE
    ELSE provided_key = valid_api_key

EXCLUDED_PATHS ==
    {"/", "/health", "/docs", "/redoc", "/openapi.json", "/api/v1/vapi/webhook"}

WEBHOOK_PATH == "/api/v1/vapi/webhook"

\* the paths of the routes the application registers
Routes ==
    {"/", "/health", "/docs", "/redoc", "/openapi.json",
     "/api/v1/ocr/extract-lc-form", "/api/v1/agent/ask",
     "/api/v1/vapi/lc/create-assistant", "/api/v1/vapi/lc/end-call",
     "/api/v1/vapi/webhook", "/api/v1/vapi/health",
     "/api/v1/voice-lc/extract-from-transcript", "/api/v1/voice-lc/health"}

\* hmac.new(secret, payload, sha256).hexdigest(): a digest determined by, and
\* determining, the pair (secret, payload)
HmacSha256(secret, payload) == <<"hmac-sha256", secret, payload>>

\* os.getenv("VAPI_WEBHOOK_SECRET", "")
WebhookSecret == IF env.VAPI_WEBHOOK_SECRET = NULL THEN "" ELSE env.VAPI_WEBHOOK_SECRET

validate_webhook_signature(payload, signature) ==
    HmacSha256(WebhookSecret, payload) = signature

\* request.json(): the parsed body, NULL when parsing raises
NotADict == [type |-> "<raises>", event |-> "<raises>"]

RequestJson(raw) ==
    CASE raw = "{\"type\": \"call.started\"}" -> [type |-> "call.started", event |-> NULL]
      [] raw = "{\"event\": \"call.ended\"}"  -> [type |-> NULL, event |-> "call.ended"]
      [] raw = "{\"type\": \"\", \"event\": \"transcript.update\"}"
                                              -> [type |-> "", event |-> "transcript.update"]
      [] raw = "{}"                           -> [type |-> NULL, event |-> NULL]
      [] OTHER                                -> NotADict

\* event_data.get("type") or event_data.get("event")
EventType(event_data) ==
    IF event_data.type \notin {NULL, ""} THEN event_data.type ELSE event_data.event

NumPathSamples == 8
NumAuthSamples == 10
NumBodySamples == 3

PathSamples ==
    <<"/api/v1/ocr/extract-lc-form", "/", "/api/v1/vapi/webhook", "/redoc",
      "/health", "/docs", "/openapi.json", "/api/v1/vapi/health",
      "/api/v1/agent/ask", "/api/v1/voice-lc/health", "/favicon.ico",
      "/api/v1/vapi/lc/end-call">>

AuthSamples ==
    <<None,
      <<"B", "e", "a", "r", "e", "r", " ", "k", "1">>,
      <<"b", "e", "a", "r", "e", "r", " ", " ", "k", "1">>,
      <<"B", "e", "a", "r", "e", "r", " ", "k", "2">>,
      <<"B", "a", "s", "i", "c", " ", "k", "1">>,
      <<"B", "e", "a", "r", "e", "r">>,
      <<>>,
      <<"B", "e", "a", "r", "e", "r", " ", "k", "1", " ", "k", "1">>,
      <<"k", "1">>,
      <<"B", "E", "A", "R", "E", "R", "\t", "k", "1">>,
      <<"B", "e", "a", "r", "e", "r", " ", "N", "o", "n", "e">>,
      <<"T", "o", "k", "e", "n", " ", "k", "1">>>>

BodySamples ==
    <<"{\"type\": \"call.started\"}", "{}", "not json", "{\"event\": \"call.ended\"}",
      "{\"type\": \"\", \"event\": \"transcript.update\"}">>

PathInputs == {PathSamples[i] : i \in 1..NumPathSamples}
AuthInputs == {AuthSamples[i] : i \in 1..NumAuthSamples}
BodyInputs == {BodySamples[i] : i \in 1..NumBodySamples}

ApiKeyInputs == {None, <<>>, <<"k", "1">>}
SecretInputs == {NULL, "whsec"}

\* the x-vapi-signature headers a sender can put on a body: none, the empty
\* one, and digests under the secrets it may hold of the bodies it may know
SignatureInputs ==
    {None, <<>>}
    \cup {HmacSha256(s, b) : s \in {"", "whsec", "guess"}, b \in BodyInputs}

\* a request arrives; the environment is the one the process started with
InitHttp ==
    /\ env \in [API_KEY : ApiKeyInputs, VAPI_API_KEY : {NULL, "vapi-key"},
                VAPI_WEBHOOK_SECRET : SecretInputs]
    /\ request \in [path : PathInputs, authorization : AuthInputs,
                    x_vapi_signature : SignatureInputs, body : BodyInputs]
    /\ hpc = "dispatch"
    /\ forwarded = FALSE
    /\ processed = FALSE
    /\ response = 0
    /\ IdleMerge
    /\ IdleCompliance
    /\ IdleSchema
    /\ IdleOcr

\* APIKeyMiddleware.dispatch
Dispatch ==
    /\ hpc = "dispatch"
    /\ IF request.path \in EXCLUDED_PATHS
       THEN /\ forwarded' = TRUE
            /\ hpc' = "call_next"
            /\ UNCHANGED response
       ELSE LET api_key == get_api_key_from_header(request.authorization)
            IN IF ~verify_api_key(api_key, env.API_KEY)
               THEN /\ response' = 401
                    /\ hpc' = "responded"
                    /\ UNCHANGED forwarded
               ELSE /\ forwarded' = TRUE
                    /\ hpc' = "call_next"
                    /\ UNCHANGED response
    /\ UNCHANGED <<env, request, processed, mvars, cvars, svars, ovars>>

\* call_next(request) for a path other than the webhook's: the route's handler
\* answers, or no route matches
Endpoint ==
    /\ hpc = "call_next"
    /\ request.path # WEBHOOK_PATH
    /\ IF request.path \in Routes
       THEN response' \in {200, 400, 500}
       ELSE response' = 404
    /\ hpc' = "responded"
    /\ UNCHANGED <<env, request, forwarded, processed, mvars, cvars, svars, ovars>>

\* vapi_webhook
VapiWebhook ==
    /\ hpc = "call_next"
    /\ request.path = WEBHOOK_PATH
    /\ hpc' = "responded"
    /\ IF env.VAPI_API_KEY = NULL
       THEN \* get_vapi_service() raises ValueError
            response' = 500 /\ UNCHANGED processed
       ELSE IF /\ Truthy(request.x_vapi_signature)
               /\ ~validate_webhook_signature(request.body, request.x_vapi_signature)
       THEN response' = 401 /\ UNCHANGED processed
       ELSE LET event_data == RequestJson(request.body)
            IN IF event_data = NotADict
               THEN response' = 200 /\ UNCHANGED processed
               ELSE IF EventType(event_data) \in {NULL, ""}
               THEN response' = 400 /\ UNCHANGED processed
               ELSE response' = 200 /\ processed' = TRUE
    /\ UNCHANGED <<env, request, forwarded, mvars, cvars, svars, ovars>>

NextHttp == Dispatch \/ Endpoint \/ VapiWebhook

SpecHttp == InitHttp /\ [][NextHttp]_vars

(***************************************************************************)
(* The schema registry (lc_schema.py), the missing-fields report           *)
(* (vapi_lc_assistant.py) and the alias resolver of the schema.            *)
(***************************************************************************)
\* "aliases" of shipment_details.port_of_loading
port_of_loading_aliases_without_pol ==
    <<<<"p", "o", "r", "t", " ", "o", "f", " ", "l", "o", "a", "d", "i", "n", "g">>,
      <<"l", "o", "a", "d", "i", "n", "g", " ", "p", "o", "r", "t">>,
      <<"o", "r", "i", "g", "i", "n", " ", "p", "o", "r", "t">>,
      <<"d", "e", "p", "a", "r", "t", "u", "r", "e", " ", "p", "o", "r", "t">>>>

port_of_loading_aliases ==
    <<<<"p", "o", "r", "t", " ", "o", "f", " ", "l", "o", "a", "d", "i", "n", "g">>,
      <<"l", "o", "a", "d", "i", "n", "g", " ", "p", "o", "r", "t">>,
      <<"o", "r", "i", "g", "i", "n", " ", "p", "o", "r", "t">>,
      <<"d", "e", "p", "a", "r", "t", "u", "r", "e", " ", "p", "o", "r", "t">>,
      <<"p", "o", "l">>>>

\* "aliases" of importer_info.applicant_name
applicant_name_aliases ==
    <<<<"n", "a", "m", "e", " ", "o", "f", " ", "a", "p", "p", "l", "i", "c", "a", "n", "t">>,
      <<"a", "p", "p", "l", "i", "c", "a", "n", "t">>,
      <<"b", "u", "y", "e", "r">>,
      <<"i", "m", "p", "o", "r", "t", "e", "r", " ", "n", "a", "m", "e">>,
      <<"i", "m", "p", "o", "r", "t", "e", "r">>>>

\* an item of a section that is not a field description (a string or a list)
Plain(key) ==
    [name |-> key, is_dict |-> FALSE, has_field |-> FALSE, chars |-> <<>>,
     field |-> <<>>, type |-> "", options |-> <<>>, aliases |-> <<>>]

\* the sections in declaration order; of a field description, the keys the
\* report and the resolver read
LC_FORM_SCHEMA ==
    <<[name |-> "transaction_role", chars |-> <<"t", "r", "a", "n", "s", "a", "c", "t", "i", "o", "n", "_", "r", "o", "l", "e">>,
       top_field |-> <<"r", "o", "l", "e", "_", "i", "n", "_", "t", "r", "a", "n", "s", "a", "c", "t", "i", "o", "n">>,
       top_aliases |-> <<<<"t", "r", "a", "n", "s", "a", "c", "t", "i", "o", "n", " ", "r", "o", "l", "e">>, <<"r", "o", "l", "e">>, <<"p", "a", "r", "t", "y", " ", "t", "y", "p", "e">>, <<"t", "r", "a", "n", "s", "a", "c", "t", "i", "o", "n", " ", "t", "y", "p", "e">>>>,
       items |-> <<
           Plain("field"),
           Plain("type"),
           Plain("options"),
           Plain("aliases")>>],
      [name |-> "amount_and_payment", chars |-> <<"a", "m", "o", "u", "n", "t", "_", "a", "n", "d", "_", "p", "a", "y", "m", "e", "n", "t">>,
       top_field |-> None,
       top_aliases |-> <<>>,
       items |-> <<
           [name |-> "amount_usd", is_dict |-> TRUE, has_field |-> TRUE, chars |-> <<"a", "m", "o", "u", "n", "t", "_", "u", "s", "d">>,
            field |-> <<"a", "m", "o", "u", "n", "t">>, type |-> "number",
            options |-> <<>>,
            aliases |-> <<<<"a", "m", "o", "u", "n", "t">>, <<"l", "c", " ", "a", "m", "o", "u", "n", "t">>, <<"v", "a", "l", "u", "e">>, <<"t", "r", "a", "n", "s", "a", "c", "t", "i", "o", "n", " ", "a", "m", "o", "u", "n", "t">>, <<"c", "r", "e", "d", "i", "t", " ", "a", "m", "o", "u", "n", "t">>, <<"u", "s", "d", " ", "a", "m", "o", "u", "n", "t">>>>],
           [name |-> "payment_terms", is_dict |-> TRUE, has_field |-> TRUE, chars |-> <<"p", "a", "y", "m", "e", "n", "t", "_", "t", "e", "r", "m", "s">>,
            field |-> <<"p", "a", "y", "m", "e", "n", "t", "_", "t", "e", "r", "m", "s">>, type |-> "string",
            options |-> <<"Sight LC", "Usance LC", "Deferred LC", "UPAS LC">>,
            aliases |-> <<<<"p", "a", "y", "m", "e", "n", "t", " ", "t", "e", "r", "m", "s">>, <<"t", "e", "r", "m", "s">>, <<"p", "a", "y", "m", "e", "n", "t", " ", "t", "y", "p", "e">>, <<"l", "c", " ", "t", "e", "r", "m", "s">>, <<"p", "a", "y", "m", "e", "n", "t", " ", "m", "e", "t", "h", "o", "d">>>>]>>],
      [name |-> "lc_details", chars |-> <<"l", "c", "_", "d", "e", "t", "a", "i", "l", "s">>,
       top_field |-> None,
       top_aliases |-> <<>>,
       items |-> <<
           [name |-> "lc_type", is_dict |-> TRUE, has_field |-> TRUE, chars |-> <<"l", "c", "_", "t", "y", "p", "e">>,
            field |-> <<"l", "c", "_", "t", "y", "p", "e">>, type |-> "string",
            options |-> <<"Local (Pakistan)", "International">>,
            aliases |-> <<<<"l", "c", " ", "t", "y", "p", "e">>, <<"t", "y", "p", "e">>, <<"c", "r", "e", "d", "i", "t", " ", "t", "y", "p", "e">>, <<"l", "e", "t", "t", "e", "r", " ", "t", "y", "p", "e">>>>],
           [name |-> "is_lc_issued", is_dict |-> TRUE, has_field |-> TRUE, chars |-> <<"i", "s", "_", "l", "c", "_", "i", "s", "s", "u", "e", "d">>,
            field |-> <<"i", "s", "_", "i", "s", "s", "u", "e", "d">>, type |-> "boolean",
            options |-> <<>>,
            aliases |-> <<<<"i", "s", " ", "i", "s", "s", "u", "e", "d">>, <<"i", "s", "s", "u", "e", "d">>, <<"l", "c", " ", "i", "s", "s", "u", "e", "d">>, <<"a", "l", "r", "e", "a", "d", "y", " ", "i", "s", "s", "u", "e", "d">>, <<"s", "t", "a", "t", "u", "s">>>>],
           [name |-> "expected_issuing_banks", is_dict |-> TRUE, has_field |-> TRUE, chars |-> <<"e", "x", "p", "e", "c", "t", "e", "d", "_", "i", "s", "s", "u", "i", "n", "g", "_", "b", "a", "n", "k", "s">>,
            field |-> <<"e", "x", "p", "e", "c", "t", "e", "d", "_", "b", "a", "n", "k", "s">>, type |-> "string",
            options |-> <<"All_Banks">>,
            aliases |-> <<<<"e", "x", "p", "e", "c", "t", "e", "d", " ", "b", "a", "n", "k", "s">>, <<"i", "s", "s", "u", "i", "n", "g", " ", "b", "a", "n", "k", "s">>, <<"b", "a", "n", "k", "s", " ", "t", "o", " ", "i", "s", "s", "u", "e">>, <<"p", "r", "e", "f", "e", "r", "r", "e", "d", " ", "b", "a", "n", "k", "s">>>>],
           [name |-> "issuing_bank_country", is_dict |-> TRUE, has_field |-> TRUE, chars |-> <<"i", "s", "s", "u", "i", "n", "g", "_", "b", "a", "n", "k", "_", "c", "o", "u", "n", "t", "r", "y">>,
            field |-> <<"b", "a", "n", "k", "_", "c", "o", "u", "n", "t", "r", "y">>, type |-> "string",
            options |-> <<>>,
            aliases |-> <<<<"c", "o", "u", "n", "t", "r", "y">>, <<"b", "a", "n", "k", " ", "c", "o", "u", "n", "t", "r", "y">>, <<"i", "s", "s", "u", "i", "n", "g", " ", "c", "o", "u", "n", "t", "r", "y">>, <<"c", "o", "u", "n", "t", "r", "y", " ", "o", "f", " ", "i", "s", "s", "u", "e">>>>],
           [name |-> "issuing_bank", is_dict |-> TRUE, has_field |-> TRUE, chars |-> <<"i", "s", "s", "u", "i", "n", "g", "_", "b", "a", "n", "k">>,
            field |-> <<"i", "s", "s", "u", "i", "n", "g", "_", "b", "a", "n", "k">>, type |-> "string",
            options |-> <<>>,
            aliases |-> <<<<"b", "a", "n", "k">>, <<"i", "s", "s", "u", "i", "n", "g", " ", "b", "a", "n", "k">>, <<"b", "a", "n", "k", " ", "n", "a", "m", "e">>, <<"f", "i", "n", "a", "n", "c", "i", "a", "l", " ", "i", "n", "s", "t", "i", "t", "u", "t", "i", "o", "n">>>>],
           [name |-> "lc_issuing_date", is_dict |-> TRUE, has_field |-> TRUE, chars |-> <<"l", "c", "_", "i", "s", "s", "u", "i", "n", "g", "_", "d", "a", "t", "e">>,
            field |-> <<"i", "s", "s", "u", "e", "_", "d", "a", "t", "e">>, type |-> "date",
            options |-> <<>>,
            aliases |-> <<<<"i", "s", "s", "u", "e", " ", "d", "a", "t", "e">>, <<"i", "s", "s", "u", "i", "n", "g", " ", "d", "a", "t", "e">>, <<"d", "a", "t", "e", " ", "o", "f", " ", "i", "s", "s", "u", "e">>, <<"l", "c", " ", "d", "a", "t", "e">>, <<"i", "s", "s", "u", "a", "n", "c", "e", " ", "d", "a", "t", "e">>>>],
           [name |-> "expected_lc_issuance_date", is_dict |-> TRUE, has_field |-> TRUE, chars |-> <<"e", "x", "p", "e", "c", "t", "e", "d", "_", "l", "c", "_", "i", "s", "s", "u", "a", "n", "c", "e", "_", "d", "a", "t", "e">>,
            field |-> <<"e", "x", "p", "e", "c", "t", "e", "d", "_", "i", "s", "s", "u", "e", "_", "d", "a", "t", "e">>, type |-> "date",
            options |-> <<>>,
            aliases |-> <<<<"e", "x", "p", "e", "c", "t", "e", "d", " ", "d", "a", "t", "e">>, <<"e", "x", "p", "e", "c", "t", "e", "d", " ", "i", "s", "s", "u", "a", "n", "c", "e">>, <<"p", "l", "a", "n", "n", "e", "d", " ", "i", "s", "s", "u", "e", " ", "d", "a", "t", "e">>>>],
           [name |-> "expected_shipment_date", is_dict |-> TRUE, has_field |-> TRUE, chars |-> <<"e", "x", "p", "e", "c", "t", "e", "d", "_", "s", "h", "i", "p", "m", "e", "n", "t", "_", "d", "a", "t", "e">>,
            field |-> <<"e", "x", "p", "e", "c", "t", "e", "d", "_", "s", "h", "i", "p", "m", "e", "n", "t", "_", "d", "a", "t", "e">>, type |-> "date",
            options |-> <<>>,
            aliases |-> <<<<"s", "h", "i", "p", "m", "e", "n", "t", " ", "d", "a", "t", "e">>, <<"s", "h", "i", "p", "p", "i", "n", "g", " ", "d", "a", "t", "e">>, <<"e", "x", "p", "e", "c", "t", "e", "d", " ", "s", "h", "i", "p", "m", "e", "n", "t">>, <<"d", "e", "l", "i", "v", "e", "r", "y", " ", "d", "a", "t", "e">>>>],
           [name |-> "expected_confirmation_date", is_dict |-> TRUE, has_field |-> TRUE, chars |-> <<"e", "x", "p", "e", "c", "t", "e", "d", "_", "c", "o", "n", "f", "i", "r", "m", "a", "t", "i", "o", "n", "_", "d", "a", "t", "e">>,
            field |-> <<"e", "x", "p", "e", "c", "t", "e", "d", "_", "c", "o", "n", "f", "i", "r", "m", "a", "t", "i", "o", "n", "_", "d", "a", "t", "e">>, type |-> "date",
            options |-> <<>>,
            aliases |-> <<<<"c", "o", "n", "f", "i", "r", "m", "a", "t", "i", "o", "n", " ", "d", "a", "t", "e">>, <<"e", "x", "p", "e", "c", "t", "e", "d", " ", "c", "o", "n", "f", "i", "r", "m", "a", "t", "i", "o", "n">>, <<"d", "a", "t", "e", " ", "t", "o", " ", "a", "d", "d", " ", "c", "o", "n", "f", "i", "r", "m", "a", "t", "i", "o", "n">>>>]>>],
      [name |-> "lc_confirmation", chars |-> <<"l", "c", "_", "c", "o", "n", "f", "i", "r", "m", "a", "t", "i", "o", "n">>,
       top_field |-> None,
       top_aliases |-> <<>>,
       items |-> <<
           [name |-> "send_to_other_banks", is_dict |-> TRUE, has_field |-> TRUE, chars |-> <<"s", "e", "n", "d", "_", "t", "o", "_", "o", "t", "h", "e", "r", "_", "b", "a", "n", "k", "s">>,
            field |-> <<"s", "e", "n", "d", "_", "t", "o", "_", "o", "t", "h", "e", "r", "_", "b", "a", "n", "k", "s">>, type |-> "boolean",
            options |-> <<>>,
            aliases |-> <<<<"s", "e", "n", "d", " ", "t", "o", " ", "o", "t", "h", "e", "r", " ", "b", "a", "n", "k", "s">>, <<"o", "t", "h", "e", "r", " ", "b", "a", "n", "k", "s">>, <<"a", "d", "d", "i", "t", "i", "o", "n", "a", "l", " ", "b", "a", "n", "k", "s">>>>],
           [name |-> "preferred_confirming_banks", is_dict |-> TRUE, has_field |-> TRUE, chars |-> <<"p", "r", "e", "f", "e", "r", "r", "e", "d", "_", "c", "o", "n", "f", "i", "r", "m", "i", "n", "g", "_", "b", "a", "n", "k", "s">>,
            field |-> <<"c", "o", "n", "f", "i", "r", "m", "i", "n", "g", "_", "b", "a", "n", "k", "s">>, type |-> "array",
            options |-> <<>>,
            aliases |-> <<<<"c", "o", "n", "f", "i", "r", "m", "i", "n", "g", " ", "b", "a", "n", "k", "s">>, <<"p", "r", "e", "f", "e", "r", "r", "e", "d", " ", "b", "a", "n", "k", "s">>, <<"c", "o", "n", "f", "i", "r", "m", "a", "t", "i", "o", "n", " ", "b", "a", "n", "k", "s">>>>]>>],
      [name |-> "shipment_details", chars |-> <<"s", "h", "i", "p", "m", "e", "n", "t", "_", "d", "e", "t", "a", "i", "l", "s">>,
       top_field |-> None,
       top_aliases |-> <<>>,
       items |-> <<
           [name |-> "shipment_type", is_dict |-> TRUE, has_field |-> TRUE, chars |-> <<"s", "h", "i", "p", "m", "e", "n", "t", "_", "t", "y", "p", "e">>,
            field |-> <<"s", "h", "i", "p", "m", "e", "n", "t", "_", "t", "y", "p", "e">>, type |-> "string",
            options |-> <<"Port", "Airport", "Land">>,
            aliases |-> <<<<"s", "h", "i", "p", "m", "e", "n", "t", " ", "t", "y", "p", "e">>, <<"t", "r", "a", "n", "s", "p", "o", "r", "t", " ", "t", "y", "p", "e">>, <<"s", "h", "i", "p", "p", "i", "n", "g", " ", "m", "e", "t", "h", "o", "d">>, <<"d", "e", "l", "i", "v", "e", "r", "y", " ", "m", "e", "t", "h", "o", "d">>>>],
           [name |-> "port_of_loading", is_dict |-> TRUE, has_field |-> TRUE, chars |-> <<"p", "o", "r", "t", "_", "o", "f", "_", "l", "o", "a", "d", "i", "n", "g">>,
            field |-> <<"l", "o", "a", "d", "i", "n", "g", "_", "p", "o", "r", "t">>, type |-> "string",
            options |-> <<>>,
            aliases |-> port_of_loading_aliases],
           [name |-> "port_of_destination", is_dict |-> TRUE, has_field |-> TRUE, chars |-> <<"p", "o", "r", "t", "_", "o", "f", "_", "d", "e", "s", "t", "i", "n", "a", "t", "i", "o", "n">>,
            field |-> <<"d", "e", "s", "t", "i", "n", "a", "t", "i", "o", "n", "_", "p", "o", "r", "t">>, type |-> "string",
            options |-> <<>>,
            aliases |-> <<<<"p", "o", "r", "t", " ", "o", "f", " ", "d", "e", "s", "t", "i", "n", "a", "t", "i", "o", "n">>, <<"d", "e", "s", "t", "i", "n", "a", "t", "i", "o", "n", " ", "p", "o", "r", "t">>, <<"a", "r", "r", "i", "v", "a", "l", " ", "p", "o", "r", "t">>, <<"p", "o", "d">>, <<"d", "i", "s", "c", "h", "a", "r", "g", "e", " ", "p", "o", "r", "t">>>>],
           [name |-> "product_description", is_dict |-> TRUE, has_field |-> TRUE, chars |-> <<"p", "r", "o", "d", "u", "c", "t", "_", "d", "e", "s", "c", "r", "i", "p", "t", "i", "o", "n">>,
            field |-> <<"p", "r", "o", "d", "u", "c", "t", "_", "d", "e", "s", "c", "r", "i", "p", "t", "i", "o", "n">>, type |-> "string",
            options |-> <<>>,
            aliases |-> <<<<"p", "r", "o", "d", "u", "c", "t">>, <<"g", "o", "o", "d", "s">>, <<"m", "e", "r", "c", "h", "a", "n", "d", "i", "s", "e">>, <<"c", "o", "m", "m", "o", "d", "i", "t", "y">>, <<"d", "e", "s", "c", "r", "i", "p", "t", "i", "o", "n">>>>]>>],
      [name |-> "importer_info", chars |-> <<"i", "m", "p", "o", "r", "t", "e", "r", "_", "i", "n", "f", "o">>,
       top_field |-> None,
       top_aliases |-> <<>>,
       items |-> <<
           [name |-> "applicant_name", is_dict |-> TRUE, has_field |-> TRUE, chars |-> <<"a", "p", "p", "l", "i", "c", "a", "n", "t", "_", "n", "a", "m", "e">>,
            field |-> <<"a", "p", "p", "l", "i", "c", "a", "n", "t", "_", "n", "a", "m", "e">>, type |-> "string",
            options |-> <<>>,
            aliases |-> applicant_name_aliases],
           [name |-> "city_of_import", is_dict |-> TRUE, has_field |-> TRUE, chars |-> <<"c", "i", "t", "y", "_", "o", "f", "_", "i", "m", "p", "o", "r", "t">>,
            field |-> <<"i", "m", "p", "o", "r", "t", "_", "c", "i", "t", "y">>, type |-> "string",
            options |-> <<>>,
            aliases |-> <<<<"c", "i", "t", "y", " ", "o", "f", " ", "i", "m", "p", "o", "r", "t">>, <<"i", "m", "p", "o", "r", "t", " ", "c", "i", "t", "y">>, <<"b", "u", "y", "e", "r", " ", "c", "i", "t", "y">>, <<"d", "e", "s", "t", "i", "n", "a", "t", "i", "o", "n", " ", "c", "i", "t", "y">>>>]>>],
      [name |-> "exporter_info", chars |-> <<"e", "x", "p", "o", "r", "t", "e", "r", "_", "i", "n", "f", "o">>,
       top_field |-> None,
       top_aliases |-> <<>>,
       items |-> <<
           [name |-> "beneficiary_name", is_dict |-> TRUE, has_field |-> TRUE, chars |-> <<"b", "e", "n", "e", "f", "i", "c", "i", "a", "r", "y", "_", "n", "a", "m", "e">>,
            field |-> <<"b", "e", "n", "e", "f", "i", "c", "i", "a", "r", "y", "_", "n", "a", "m", "e">>, type |-> "string",
            options |-> <<>>,
            aliases |-> <<<<"n", "a", "m", "e", " ", "o", "f", " ", "b", "e", "n", "e", "f", "i", "c", "i", "a", "r", "y">>, <<"b", "e", "n", "e", "f", "i", "c", "i", "a", "r", "y">>, <<"s", "e", "l", "l", "e", "r">>, <<"e", "x", "p", "o", "r", "t", "e", "r", " ", "n", "a", "m", "e">>, <<"e", "x", "p", "o", "r", "t", "e", "r">>, <<"s", "u", "p", "p", "l", "i", "e", "r">>>>],
           [name |-> "city_of_export", is_dict |-> TRUE, has_field |-> TRUE, chars |-> <<"c", "i", "t", "y", "_", "o", "f", "_", "e", "x", "p", "o", "r", "t">>,
            field |-> <<"e", "x", "p", "o", "r", "t", "_", "c", "i", "t", "y">>, type |-> "string",
            options |-> <<>>,
            aliases |-> <<<<"c", "i", "t", "y", " ", "o", "f", " ", "e", "x", "p", "o", "r", "t">>, <<"e", "x", "p", "o", "r", "t", " ", "c", "i", "t", "y">>, <<"s", "e", "l", "l", "e", "r", " ", "c", "i", "t", "y">>, <<"o", "r", "i", "g", "i", "n", " ", "c", "i", "t", "y">>>>],
           [name |-> "beneficiary_country", is_dict |-> TRUE, has_field |-> TRUE, chars |-> <<"b", "e", "n", "e", "f", "i", "c", "i", "a", "r", "y", "_", "c", "o", "u", "n", "t", "r", "y">>,
            field |-> <<"b", "e", "n", "e", "f", "i", "c", "i", "a", "r", "y", "_", "c", "o", "u", "n", "t", "r", "y">>, type |-> "string",
            options |-> <<>>,
            aliases |-> <<<<"b", "e", "n", "e", "f", "i", "c", "i", "a", "r", "y", " ", "c", "o", "u", "n", "t", "r", "y">>, <<"e", "x", "p", "o", "r", "t", "e", "r", " ", "c", "o", "u", "n", "t", "r", "y">>, <<"c", "o", "u", "n", "t", "r", "y", " ", "o", "f", " ", "e", "x", "p", "o", "r", "t">>, <<"s", "e", "l", "l", "e", "r", " ", "c", "o", "u", "n", "t", "r", "y">>>>]>>],
      [name |-> "confirmation_charges", chars |-> <<"c", "o", "n", "f", "i", "r", "m", "a", "t", "i", "o", "n", "_", "c", "h", "a", "r", "g", "e", "s">>,
       top_field |-> None,
       top_aliases |-> <<>>,
       items |-> <<
           [name |-> "charges_on_account_of", is_dict |-> TRUE, has_field |-> TRUE, chars |-> <<"c", "h", "a", "r", "g", "e", "s", "_", "o", "n", "_", "a", "c", "c", "o", "u", "n", "t", "_", "o", "f">>,
            field |-> <<"c", "h", "a", "r", "g", "e", "s", "_", "a", "c", "c", "o", "u", "n", "t">>, type |-> "string",
            options |-> <<"Exporter (Beneficiary)", "Importer (Applicant)">>,
            aliases |-> <<<<"c", "h", "a", "r", "g", "e", "s", " ", "o", "n", " ", "a", "c", "c", "o", "u", "n", "t", " ", "o", "f">>, <<"c", "h", "a", "r", "g", "e", "s", " ", "t", "o">>, <<"p", "a", "i", "d", " ", "b", "y">>, <<"a", "c", "c", "o", "u", "n", "t", " ", "o", "f">>>>],
           [name |-> "expected_charges", is_dict |-> TRUE, has_field |-> TRUE, chars |-> <<"e", "x", "p", "e", "c", "t", "e", "d", "_", "c", "h", "a", "r", "g", "e", "s">>,
            field |-> <<"e", "x", "p", "e", "c", "t", "e", "d", "_", "c", "h", "a", "r", "g", "e", "s">>, type |-> "number",
            options |-> <<>>,
            aliases |-> <<<<"e", "x", "p", "e", "c", "t", "e", "d", " ", "c", "h", "a", "r", "g", "e", "s">>, <<"c", "h", "a", "r", "g", "e", "s">>, <<"f", "e", "e", "s">>, <<"c", "o", "s", "t">>>>],
           [name |-> "pricing_per_annum", is_dict |-> TRUE, has_field |-> TRUE, chars |-> <<"p", "r", "i", "c", "i", "n", "g", "_", "p", "e", "r", "_", "a", "n", "n", "u", "m">>,
            field |-> <<"p", "r", "i", "c", "i", "n", "g", "_", "p", "e", "r", "_", "a", "n", "n", "u", "m">>, type |-> "number",
            options |-> <<>>,
            aliases |-> <<<<"p", "r", "i", "c", "i", "n", "g", " ", "p", "e", "r", " ", "a", "n", "n", "u", "m">>, <<"a", "n", "n", "u", "a", "l", " ", "p", "r", "i", "c", "i", "n", "g">>, <<"y", "e", "a", "r", "l", "y", " ", "r", "a", "t", "e">>, <<"p", "e", "r", " ", "a", "n", "n", "u", "m">>>>]>>],
      [name |-> "attachments", chars |-> <<"a", "t", "t", "a", "c", "h", "m", "e", "n", "t", "s">>,
       top_field |-> None,
       top_aliases |-> <<>>,
       items |-> <<
           [name |-> "documents", is_dict |-> TRUE, has_field |-> TRUE, chars |-> <<"d", "o", "c", "u", "m", "e", "n", "t", "s">>,
            field |-> <<"d", "o", "c", "u", "m", "e", "n", "t", "s">>, type |-> "array",
            options |-> <<>>,
            aliases |-> <<<<"d", "o", "c", "u", "m", "e", "n", "t", "s">>, <<"a", "t", "t", "a", "c", "h", "m", "e", "n", "t", "s">>, <<"f", "i", "l", "e", "s">>, <<"l", "c", " ", "d", "r", "a", "f", "t", "s">>, <<"i", "n", "v", "o", "i", "c", "e">>>>]>>],
      [name |-> "bidding_deadline", chars |-> <<"b", "i", "d", "d", "i", "n", "g", "_", "d", "e", "a", "d", "l", "i", "n", "e">>,
       top_field |-> None,
       top_aliases |-> <<>>,
       items |-> <<
           [name |-> "last_date_for_bids", is_dict |-> TRUE, has_field |-> TRUE, chars |-> <<"l", "a", "s", "t", "_", "d", "a", "t", "e", "_", "f", "o", "r", "_", "b", "i", "d", "s">>,
            field |-> <<"b", "i", "d", "_", "d", "e", "a", "d", "l", "i", "n", "e">>, type |-> "date",
            options |-> <<>>,
            aliases |-> <<<<"b", "i", "d", "d", "i", "n", "g", " ", "d", "e", "a", "d", "l", "i", "n", "e">>, <<"l", "a", "s", "t", " ", "d", "a", "t", "e">>, <<"d", "e", "a", "d", "l", "i", "n", "e">>, <<"b", "i", "d", " ", "d", "a", "t", "e">>, <<"c", "l", "o", "s", "i", "n", "g", " ", "d", "a", "t", "e">>, <<"v", "a", "l", "i", "d", "i", "t", "y">>, <<"v", "a", "l", "i", "d", " ", "f", "o", "r">>, <<"v", "a", "l", "i", "d", "i", "t", "y", " ", "p", "e", "r", "i", "o", "d">>>>]>>]>>

\* a dict in the insertion order of its keys: a sequence of (key, value)
ODict(pairs) == [is_dict |-> TRUE, pairs |-> pairs, scalar |-> NULL]
OScalar(v) == [is_dict |-> FALSE, pairs |-> <<>>, scalar |-> v]

\* key in d
HasKey(d, k) == \E i \in 1..Len(d) : d[i].key = k

\* d[key]
ItemOf(d, k) == d[CHOOSE i \in 1..Len(d) : d[i].key = k].value

_is_field_provided(data, sec, field) ==
    IF HasKey(data, sec)
    THEN LET section_data == ItemOf(data, sec)
         IN IF section_data.is_dict
            THEN HasKey(section_data.pairs, field) /\ ItemOf(section_data.pairs, field) # NULL
            ELSE FALSE
    ELSE FALSE

\* the description put first instead of last
AppendMissing_prepend(list, field_desc) == <<field_desc>> \o list

\* missing_fields_info.append(field_desc)
AppendMissing(list, field_desc) == Append(list, field_desc)

FieldDesc(sec, field_info) ==
    [section |-> sec.name, field_name |-> field_info.name, field_key |-> field_info.field,
     type |-> field_info.type, options |-> field_info.options, aliases |-> field_info.aliases]

\* the sections dict of _format_fields_for_prompt: one group per section, in
\* the order in which the sections first occur in the list
GroupBySection(missing_fields) ==
    LET firsts == {i \in 1..Len(missing_fields) :
                      \A j \in 1..(i - 1) : missing_fields[j].section # missing_fields[i].section}
        Nth(k) == CHOOSE i \in firsts : Cardinality({j \in firsts : j < i}) = k - 1
    IN [k \in 1..Cardinality(firsts) |->
            [section |-> missing_fields[Nth(k)].section,
             fields |-> SelectSeq(missing_fields,
                                  LAMBDA d : d.section = missing_fields[Nth(k)].section)]]

\* the report without its wording; no group when nothing is missing
_format_fields_for_prompt(missing_fields) ==
    IF missing_fields = <<>> THEN <<>> ELSE GroupBySection(missing_fields)

NOT_FOUND == [section |-> "", field |-> "NOT_FOUND"]

\* the fields of the registry by position: <<section, 0>> is a top-level field,
\* <<section, item>> a field of a section
FieldPositions ==
    {<<si, 0>> : si \in {i \in 1..Len(LC_FORM_SCHEMA) : LC_FORM_SCHEMA[i].top_field # None}}
    \cup UNION {{<<si, ii>> : ii \in {i \in 1..Len(LC_FORM_SCHEMA[si].items) :
                                        /\ LC_FORM_SCHEMA[si].items[i].is_dict
                                        /\ LC_FORM_SCHEMA[si].items[i].has_field}} :
                si \in 1..Len(LC_FORM_SCHEMA)}

PositionBefore(p, q) == p[1] < q[1] \/ (p[1] = q[1] /\ p[2] < q[2])

\* the canonical keys of the field at a position
CanonicalKeys(p) ==
    IF p[2] = 0
    THEN {LC_FORM_SCHEMA[p[1]].chars, LC_FORM_SCHEMA[p[1]].top_field}
    ELSE {LC_FORM_SCHEMA[p[1]].items[p[2]].chars, LC_FORM_SCHEMA[p[1]].items[p[2]].field}

AliasesAt(p) ==
    LET aliases == IF p[2] = 0 THEN LC_FORM_SCHEMA[p[1]].top_aliases
                   ELSE LC_FORM_SCHEMA[p[1]].items[p[2]].aliases
    IN {aliases[i] : i \in 1..Len(aliases)}

CanonicalAt(p) ==
    IF p[2] = 0
    THEN [section |-> "", field |-> LC_FORM_SCHEMA[p[1]].name]
    ELSE [section |-> LC_FORM_SCHEMA[p[1]].name, field |-> LC_FORM_SCHEMA[p[1]].items[p[2]].name]

\* resolveField(sectionHint, rawLabel): the label, trimmed and in lower case,
\* against the canonical key and then the aliases of each field in declaration
\* order; the first field that matches wins.  The hint has no stated effect.
resolveField(sectionHint, rawLabel) ==
    LET wanted == Lower(Strip(rawLabel))
        matching == {p \in FieldPositions :
                        \/ wanted \in {Lower(k) : k \in CanonicalKeys(p)}
                        \/ wanted \in {Lower(Strip(a)) : a \in AliasesAt(p)}}
    IN IF matching = {} THEN NOT_FOUND
       ELSE CanonicalAt(CHOOSE p \in matching :
                            \A q \in matching : q = p \/ PositionBefore(p, q))

NumSampleSections == 2
NumLabelSamples == 6

SampleSections == <<"shipment_details", "importer_info", "exporter_info", "lc_confirmation">>

SampleFields ==
    [s \in {"shipment_details", "importer_info", "exporter_info", "lc_confirmation"} |->
        CASE s = "shipment_details" -> {"port_of_loading", "port_of_destination"}
          [] s = "importer_info"    -> {"applicant_name"}
          [] s = "exporter_info"    -> {"beneficiary_country"}
          [] s = "lc_confirmation"  -> {"send_to_other_banks"}]

LabelSamples ==
    <<<<"b", "u", "y", "e", "r">>, <<"P", "O", "L">>, <<" ", "p", "o", "l", " ">>, <<"B", "u", "y", "e", "r", " ">>, <<>>,
      <<"n", "o", " ", "s", "u", "c", "h", " ", "l", "a", "b", "e", "l">>, <<"p", "o", "r", "t", "_", "o", "f", "_", "l", "o", "a", "d", "i", "n", "g">>, <<"A", "P", "P", "L", "I", "C", "A", "N", "T", "_", "N", "A", "M", "E">>,
      <<"p", "r", "e", "f", "e", "r", "r", "e", "d", " ", "b", "a", "n", "k", "s">>, <<"r", "o", "l", "e">>>>

\* the orders in which the keys of a dict can have been inserted
Orders(keys) ==
    {o \in [1..Cardinality(keys) -> keys] : \A i, j \in DOMAIN o : o[i] = o[j] => i = j}

\* the dicts over some of the given keys, in every insertion order
ODicts(keys, values) ==
    UNION {UNION {{[i \in DOMAIN o |-> [key |-> o[i], value |-> v[o[i]]]] :
                      v \in {w \in [ks -> UNION {values[k] : k \in ks}] :
                                \A k \in ks : w[k] \in values[k]}} :
                  o \in Orders(ks)} :
           ks \in SUBSET keys}

\* a field of a record: None or a value
FieldValues == {NULL, "x"}

\* a section of a record: a dict of some of its fields, or not a dict at all
SectionInputs(s) ==
    {OScalar("n/a")}
    \cup {ODict(d) : d \in ODicts(SampleFields[s], [f \in SampleFields[s] |-> FieldValues])}

DataInputs ==
    LET keys == {SampleSections[i] : i \in 1..NumSampleSections}
    IN ODicts(keys, [s \in keys |-> SectionInputs(s)])

LabelInputs == {LabelSamples[i] : i \in 1..NumLabelSamples}

\* entry of get_missing_fields_description, or of resolveField
InitSchema ==
    /\ \/ /\ provided_fields \in DataInputs
          /\ spc = "scan"
          /\ raw_label = <<>>
       \/ /\ provided_fields = <<>>
          /\ spc = "resolve"
          /\ raw_label \in LabelInputs
    /\ section_idx = 1
    /\ item_idx = 1
    /\ missing_fields_info = <<>>
    /\ report = <<>>
    /\ resolved = <<>>
    /\ IdleMerge
    /\ IdleCompliance
    /\ IdleHttp
    /\ IdleOcr

\* for field_name, field_info in section_data.items(): one item
ScanField ==
    /\ spc = "scan"
    /\ section_idx <= Len(LC_FORM_SCHEMA)
    /\ item_idx <= Len(LC_FORM_SCHEMA[section_idx].items)
    /\ LET sec == LC_FORM_SCHEMA[section_idx]
           field_info == sec.items[item_idx]
       IN IF /\ field_info.is_dict
             /\ field_info.has_field
             /\ ~_is_field_provided(provided_fields, sec.name, field_info.name)
          THEN missing_fields_info' =
                   AppendMissing(missing_fields_info, FieldDesc(sec, field_info))
          ELSE UNCHANGED missing_fields_info
    /\ item_idx' = item_idx + 1
    /\ UNCHANGED <<provided_fields, section_idx, report, spc, raw_label, resolved,
                   mvars, cvars, hvars, ovars>>

\* for section_name, section_data in LC_FORM_SCHEMA.items(): the next section
ScanSection ==
    /\ spc = "scan"
    /\ section_idx <= Len(LC_FORM_SCHEMA)
    /\ item_idx > Len(LC_FORM_SCHEMA[section_idx].items)
    /\ section_idx' = section_idx + 1
    /\ item_idx' = 1
    /\ UNCHANGED <<provided_fields, missing_fields_info, report, spc, raw_label,
                   resolved, mvars, cvars, hvars, ovars>>

\* return _format_fields_for_prompt(missing_fields_info, all_fields_info)
FormatFields ==
    /\ spc = "scan"
    /\ section_idx > Len(LC_FORM_SCHEMA)
    /\ report' = _format_fields_for_prompt(missing_fields_info)
    /\ spc' = "done"
    /\ UNCHANGED <<provided_fields, section_idx, item_idx, missing_fields_info,
                   raw_label, resolved, mvars, cvars, hvars, ovars>>

ResolveLabel ==
    /\ spc = "resolve"
    /\ resolved' = resolveField(NULL, raw_label)
    /\ spc' = "resolved"
    /\ UNCHANGED <<provided_fields, section_idx, item_idx, missing_fields_info,
                   report, raw_label, mvars, cvars, hvars, ovars>>

NextSchema == ScanField \/ ScanSection \/ FormatFields \/ ResolveLabel

SpecSchema == InitSchema /\ [][NextSchema]_vars

(***************************************************************************)
(* Properties of the mergers.                                              *)
(***************************************************************************)
\* the first argument of the call in progress: A, then merge(A, B)
Provided == IF round = 1 THEN arg_provided ELSE first_result

\* the value a record holds at (section, field); Absent when it holds none
Absent == "<absent>"

FieldOf(r, s, f) ==
    IF s \in DOMAIN r /\ IsDict(r[s]) /\ f \in DOMAIN r[s].items
    THEN r[s].items[f] ELSE Absent

HasValue(r, s, f) == FieldOf(r, s, f) \notin {Absent, NULL}

C2_NullFilled ==
    mpc = "done" =>
        \A s \in SectionKeys, f \in Fields :
            (FieldOf(Provided, s, f) = NULL /\ HasValue(arg_collected, s, f))
                => FieldOf(merge_result, s, f) = FieldOf(arg_collected, s, f)

C2_Witness ==
    /\ mpc = "done"
    /\ round = 1
    /\ impl = "_merge_lc_data"
    /\ \E s \in SectionKeys, f \in Fields :
        /\ FieldOf(arg_provided, s, f) = NULL
        /\ HasValue(arg_collected, s, f)

\* C3: merging the returned record with the same incoming record again
\* returns an equal record: merge(merge(A, B), B) = merge(A, B).
C3_Idempotent ==
    (mpc = "done" /\ round = 2) => merge_result = first_result

\* the second merge has returned, for records with a field present as None
\* and a section present in only one of the two records
C3_Witness ==
    /\ mpc = "done"
    /\ round = 2
    /\ impl = "merge_collected_data"
    /\ \E s \in SectionKeys :
        /\ s \in DOMAIN arg_collected
        /\ s \notin DOMAIN arg_provided
        /\ \E f \in Fields : FieldOf(arg_collected, s, f) = NULL
        /\ \E f \in Fields : HasValue(arg_collected, s, f)

\* C4: at every step of a merge call the two argument records hold what
\* they held at the call, and the returned record is the function
\* MergeRecords of the two arguments, whatever the iteration order was.
C4_PureAndOrderFree ==
    /\ Deref(heap, PROVIDED) = Provided
    /\ Deref(heap, COLLECTED) = arg_collected
    /\ mpc = "done" => merge_result = MergeRecords(impl, Provided, arg_collected)

\* a call that wrote into the copy and had two sections and two fields to
\* order has returned
C4_Witness ==
    /\ mpc = "done"
    /\ merge_result # Provided
    /\ DOMAIN arg_collected = TopKeys
    /\ \E s \in SectionKeys : Cardinality(DOMAIN arg_collected[s].items) >= 2

\* C17: for every top-level key, the scalar key transaction_role included, a
\* non-null value of incoming under a key that base lacks or holds as None is
\* the value of the returned record under that key.
C17_TopLevelKeyFilled ==
    mpc = "done" =>
        \A k \in TopKeys :
            (/\ k \in DOMAIN arg_collected
             /\ arg_collected[k] # Scalar(NULL)
             /\ (k \notin DOMAIN Provided \/ Provided[k] = Scalar(NULL)))
                => merge_result[k] = arg_collected[k]

\* C18: a field of a section of incoming that base's section lacks, or whose
\* section base lacks, has incoming's value (None included) in the returned
\* record, and every top-level key of either input is a key of the result.
C18_AbsentFieldAdded ==
    mpc = "done" =>
        /\ \A s \in SectionKeys \cap DOMAIN arg_collected :
             \A f \in DOMAIN arg_collected[s].items :
                FieldOf(Provided, s, f) = Absent
                    => FieldOf(merge_result, s, f) = arg_collected[s].items[f]
        /\ DOMAIN merge_result = DOMAIN Provided \cup DOMAIN arg_collected

\* base has the section without the field, incoming has the field as None
C18_Witness ==
    /\ mpc = "done"
    /\ round = 1
    /\ impl = "_merge_lc_data"
    /\ \E s \in SectionKeys \cap DOMAIN arg_collected \cap DOMAIN arg_provided :
         \E f \in DOMAIN arg_collected[s].items :
            /\ FieldOf(arg_provided, s, f) = Absent
            /\ arg_collected[s].items[f] = NULL
    /\ DOMAIN arg_provided # DOMAIN arg_collected

(***************************************************************************)
(* Properties of the evaluator.                                            *)
(***************************************************************************)
\* LOW < MEDIUM < HIGH < CRITICAL
RiskRank(level) ==
    CASE level = "LOW" -> 0
      [] level = "MEDIUM" -> 1
      [] level = "HIGH" -> 2
      [] level = "CRITICAL" -> 3

\* a country or port string as the tables key it: lowercased and trimmed
NormalForm(str) == IF str = None THEN <<>> ELSE Strip(Lower(str))

\* the reference entries the four name fields of the input record match
BeneficiaryEntry == DictGet(SANCTIONED_COUNTRIES, NormalForm(beneficiary_country), NoEntry)

IssuingEntry == DictGet(SANCTIONED_COUNTRIES, NormalForm(issuing_country), NoEntry)

DestinationPort == DictGet(HIGH_RISK_PORTS, NormalForm(port_destination), NoPort)

LoadingPort == DictGet(HIGH_RISK_PORTS, NormalForm(port_loading), NoPort)

\* the product description holds a dual-use keyword, in any letter case
HasDualUseKeyword ==
    /\ product # None
    /\ \E k \in 1..Len(DUAL_USE_PRODUCTS) : Contains(Lower(product), DUAL_USE_PRODUCTS[k])

NoCountryOrPortMatch ==
    /\ BeneficiaryEntry = NoEntry
    /\ IssuingEntry = NoEntry
    /\ DestinationPort = NoPort
    /\ LoadingPort = NoPort

\* the level of every rule the input record triggers
TriggeredLevels ==
    (IF BeneficiaryEntry # NoEntry THEN {BeneficiaryEntry.risk_level} ELSE {})
    \cup (IF IssuingEntry # NoEntry THEN {IssuingEntry.risk_level} ELSE {})
    \cup (IF DestinationPort # NoPort THEN {DestinationPort.risk} ELSE {})
    \cup (IF LoadingPort # NoPort THEN {"HIGH"} ELSE {})
    \cup (IF HasDualUseKeyword THEN {"MEDIUM"} ELSE {})

\* C5: a returned verdict with blocked = true has compliant = false and
\* risk_level = CRITICAL.
C5_BlockedImpliesCritical ==
    (cpc = "returned" /\ result.blocked)
        => (~result.compliant /\ result.risk_level = "CRITICAL")

\* a blocked verdict on which the loading-port and dual-use steps acted too
C5_Witness ==
    /\ cpc = "returned"
    /\ result.blocked
    /\ LoadingPort # NoPort
    /\ HasDualUseKeyword

\* C6: the risk level never decreases from one evaluator step to the next,
\* and the returned risk_level is at least the level of every triggered rule.
C6_RiskNeverDecreases ==
    /\ [][RiskRank(result'.risk_level) >= RiskRank(result.risk_level)]_vars
    /\ [](cpc = "returned" =>
            \A level \in TriggeredLevels :
                RiskRank(result.risk_level) >= RiskRank(level))

\* C7: a beneficiary country that normalizes to an entry with blocked = true
\* gives compliant = false, CRITICAL, blocked = true and sources, whatever
\* the other fields hold.
C7_BlockedBeneficiary ==
    (cpc = "returned" /\ BeneficiaryEntry.blocked)
        => /\ ~result.compliant
           /\ result.risk_level = "CRITICAL"
           /\ result.blocked
           /\ result.sources # <<>>

\* a blocked beneficiary together with an issuing country of a lower level
C7_Witness ==
    /\ cpc = "returned"
    /\ BeneficiaryEntry.blocked
    /\ IssuingEntry # NoEntry
    /\ IssuingEntry.risk_level # "CRITICAL"

\* C8: a record that matches no country, no port and no dual-use keyword
\* gives compliant = true, LOW, blocked = false, no sources and the
\* "can proceed, standard due diligence" recommendation.
C8_CleanRecord ==
    (cpc = "returned" /\ NoCountryOrPortMatch /\ ~HasDualUseKeyword)
        => /\ result.compliant
           /\ result.risk_level = "LOW"
           /\ ~result.blocked
           /\ result.sources = <<>>
           /\ result.recommendations = CAN_PROCEED

\* the record of test_safe_country: "United Arab Emirates", "Jebel Ali, Dubai",
\* "Electronics"
C8_Witness ==
    /\ cpc = "returned"
    /\ beneficiary_country = CountrySamples[3]
    /\ port_destination = PortSamples[3]
    /\ product = ProductSamples[2]
    /\ NoCountryOrPortMatch
    /\ ~HasDualUseKeyword

\* C9: a destination port that normalizes to a CRITICAL port gives
\* risk_level = CRITICAL, blocked = true and compliant = false, whatever the
\* other fields hold.
C9_CriticalDestination ==
    (cpc = "returned" /\ DestinationPort.risk = "CRITICAL")
        => /\ result.risk_level = "CRITICAL"
           /\ result.blocked
           /\ ~result.compliant

\* a CRITICAL destination port with no country match, a matched loading port
\* and a dual-use product
C9_Witness ==
    /\ cpc = "returned"
    /\ DestinationPort.risk = "CRITICAL"
    /\ BeneficiaryEntry = NoEntry
    /\ IssuingEntry = NoEntry
    /\ LoadingPort # NoPort
    /\ HasDualUseKeyword

\* C10: a product description holding a dual-use keyword gives a returned
\* risk_level of at least MEDIUM, exactly MEDIUM with compliant = true and
\* blocked = false when no country or port matches, and the scan leaves a
\* level of HIGH or CRITICAL as it is.
C10_DualUseAtLeastMedium ==
    /\ []((cpc = "returned" /\ HasDualUseKeyword) =>
            /\ RiskRank(result.risk_level) >= RiskRank("MEDIUM")
            /\ NoCountryOrPortMatch =>
                 /\ result.risk_level = "MEDIUM"
                 /\ result.compliant
                 /\ ~result.blocked)
    /\ [][(cpc = "check_dual_use" /\ RiskRank(result.risk_level) >= RiskRank("HIGH"))
            => result'.risk_level = result.risk_level]_vars

\* "military drone components" on an otherwise clean record
C10_Witness ==
    /\ cpc = "returned"
    /\ product = ProductSamples[3]
    /\ HasDualUseKeyword
    /\ NoCountryOrPortMatch

\* C11: an issuing-bank country that matches an entry, with no other rule
\* triggered, gives compliant = false, the entry's level and blocked = false,
\* also for an entry that is itself marked blocked.
C11_IssuingOnly ==
    (/\ cpc = "returned"
     /\ IssuingEntry # NoEntry
     /\ BeneficiaryEntry = NoEntry
     /\ DestinationPort = NoPort
     /\ LoadingPort = NoPort
     /\ ~HasDualUseKeyword)
        => /\ ~result.compliant
           /\ result.risk_level = IssuingEntry.risk_level
           /\ ~result.blocked

\* the issuing country alone matches, and its entry is marked blocked
C11_Witness ==
    /\ cpc = "returned"
    /\ IssuingEntry.blocked
    /\ BeneficiaryEntry = NoEntry
    /\ DestinationPort = NoPort
    /\ LoadingPort = NoPort
    /\ ~HasDualUseKeyword

\* the levels the steps assign for the rules the input record triggers
CandidateLevels ==
    (IF BeneficiaryEntry # NoEntry THEN {BeneficiaryEntry.risk_level} ELSE {})
    \cup (IF IssuingEntry # NoEntry THEN {IssuingEntry.risk_level} ELSE {})
    \cup (IF DestinationPort.risk = "CRITICAL" THEN {"CRITICAL"} ELSE {})
    \cup (IF LoadingPort # NoPort THEN {"HIGH"} ELSE {})
    \cup (IF HasDualUseKeyword THEN {"MEDIUM"} ELSE {})

\* C19: the returned risk_level is the maximum of LOW and the levels assigned
\* by the triggered steps, and blocked, once true, stays true.
C19_MaxReduction ==
    /\ [](cpc = "returned" =>
            /\ \A level \in CandidateLevels \cup {"LOW"} :
                  RiskRank(result.risk_level) >= RiskRank(level)
            /\ result.risk_level \in CandidateLevels \cup {"LOW"})
    /\ [][result.blocked => result'.blocked]_vars

AnyRuleTriggered == ~NoCountryOrPortMatch \/ HasDualUseKeyword

\* C20: the recommendation of a returned verdict is chosen by precedence:
\* blocked, else risk_level HIGH, else some rule triggered, else none.
C20_RecommendationPrecedence ==
    cpc = "returned" =>
        /\ result.recommendations =
            IF result.blocked THEN CANNOT_PROCEED
            ELSE IF result.risk_level = "HIGH" THEN MANUAL_REVIEW
            ELSE IF AnyRuleTriggered THEN PROCEED_WITH_CAUTION
            ELSE CAN_PROCEED
        /\ Cardinality({CANNOT_PROCEED, MANUAL_REVIEW,
                        PROCEED_WITH_CAUTION, CAN_PROCEED}) = 4

\* a CRITICAL verdict that is not blocked: the third text is chosen
C20_Witness ==
    /\ cpc = "returned"
    /\ ~result.blocked
    /\ result.risk_level = "CRITICAL"
    /\ result.recommendations = PROCEED_WITH_CAUTION

(***************************************************************************)
(* Properties of the HTTP layer.                                           *)
(***************************************************************************)
\* the header is "<scheme> <key>": two tokens separated by whitespace only,
\* the first one "bearer" in any letter case
IsBearerOf(header, key) ==
    /\ header # None
    /\ \E p \in 0..Len(header), m \in 1..Len(header), q \in 0..Len(header) :
          /\ p + 6 + m + Len(key) + q = Len(header)
          /\ Lower(SubSeq(header, p + 1, p + 6)) = <<"b", "e", "a", "r", "e", "r">>
          /\ SubSeq(header, p + 6 + m + 1, p + 6 + m + Len(key)) = key
          /\ \A i \in (1..p) \cup ((p + 7)..(p + 6 + m))
                        \cup ((Len(header) - q + 1)..Len(header)) :
                header[i] \in Whitespace

HasValidKey ==
    /\ env.API_KEY \notin {None, <<>>}
    /\ \A i \in 1..Len(env.API_KEY) : env.API_KEY[i] \notin Whitespace
    /\ IsBearerOf(request.authorization, env.API_KEY)

C13_OnlySignedProcessed ==
    processed =>
        request.x_vapi_signature = HmacSha256(WebhookSecret, request.body)

(***************************************************************************)
(* Properties of the schema registry and of the missing-fields report.     *)
(***************************************************************************)
\* the record as a mapping, its key order forgotten
Content(pairs) == [k \in {pairs[i].key : i \in 1..Len(pairs)} |-> ItemOf(pairs, k)]

HoldsValue(data, s, f) ==
    LET m == Content(data)
    IN /\ s \in DOMAIN m
       /\ m[s].is_dict
       /\ f \in DOMAIN Content(m[s].pairs)
       /\ Content(m[s].pairs)[f] # NULL

\* the places of the report: <<group, rank in the group>>
ReportPlaces ==
    UNION {{<<g, k>> : k \in 1..Len(report[g].fields)} : g \in 1..Len(report)}

ReportEntry(x) == report[x[1]].fields[x[2]]

\* where the schema declares the field of a report entry
DeclaredAt(e) ==
    LET si == CHOOSE i \in 1..Len(LC_FORM_SCHEMA) : LC_FORM_SCHEMA[i].name = e.section
    IN <<si, CHOOSE i \in 1..Len(LC_FORM_SCHEMA[si].items) :
                 LC_FORM_SCHEMA[si].items[i].name = e.field_name>>

\* C14: the report lists the missing fields in the order of declaration of
\* LC_FORM_SCHEMA (sections, then fields), one group per section, and which
\* fields it lists depends on the record's content only, not on its key order.
C14_SchemaOrder ==
    spc = "done" =>
        /\ \A x, y \in ReportPlaces :
              PositionBefore(x, y)
                  => PositionBefore(DeclaredAt(ReportEntry(x)), DeclaredAt(ReportEntry(y)))
        /\ \A g \in 1..Len(report) :
              /\ report[g].fields # <<>>
              /\ \A k \in 1..Len(report[g].fields) :
                    report[g].fields[k].section = report[g].section
              /\ \A h \in 1..Len(report) : report[h].section = report[g].section => h = g
        /\ {<<ReportEntry(x).section, ReportEntry(x).field_name>> : x \in ReportPlaces}
              = {<<LC_FORM_SCHEMA[p[1]].name, LC_FORM_SCHEMA[p[1]].items[p[2]].name>> :
                    p \in {q \in FieldPositions :
                              /\ q[2] # 0
                              /\ ~HoldsValue(provided_fields, LC_FORM_SCHEMA[q[1]].name,
                                             LC_FORM_SCHEMA[q[1]].items[q[2]].name)}}

\* a record whose keys come in the reverse of the schema's order, with one
\* port given and the other missing
C14_Witness ==
    /\ spc = "done"
    /\ Len(provided_fields) = 2
    /\ provided_fields[1].key = "importer_info"
    /\ provided_fields[2].key = "shipment_details"
    /\ provided_fields[2].value.is_dict
    /\ Len(provided_fields[2].value.pairs) = 2
    /\ provided_fields[2].value.pairs[1] = [key |-> "port_of_destination", value |-> NULL]
    /\ provided_fields[2].value.pairs[2] = [key |-> "port_of_loading", value |-> "x"]
    /\ \E g \in 1..Len(report) : Len(report[g].fields) > 1

LabelsAt(p) == {Lower(k) : k \in CanonicalKeys(p)} \cup {Lower(Strip(a)) : a \in AliasesAt(p)}

\* C15: "buyer" resolves to importer_info.applicant_name and "POL", in any
\* letter case and with blanks around it, to shipment_details.port_of_loading,
\* and no other field has either label as canonical key or alias.
C15_BuyerAndPol ==
    /\ (spc = "resolved" /\ Lower(Strip(raw_label)) = <<"b", "u", "y", "e", "r">>)
          => resolved = [section |-> "importer_info", field |-> "applicant_name"]
    /\ (spc = "resolved" /\ Lower(Strip(raw_label)) = <<"p", "o", "l">>)
          => resolved = [section |-> "shipment_details", field |-> "port_of_loading"]
    /\ spc = "resolved" => \A p \in FieldPositions :
          /\ <<"b", "u", "y", "e", "r">> \in LabelsAt(p)
                => CanonicalAt(p) = [section |-> "importer_info", field |-> "applicant_name"]
          /\ <<"p", "o", "l">> \in LabelsAt(p)
                => CanonicalAt(p) = [section |-> "shipment_details", field |-> "port_of_loading"]

\* "POL" between blanks has been resolved
C15_Witness ==
    /\ spc = "resolved"
    /\ raw_label = <<" ", "p", "o", "l", " ">>
    /\ resolved = [section |-> "shipment_details", field |-> "port_of_loading"]

(***************************************************************************)
(* Properties of concurrent calls.                                         *)
(***************************************************************************)
\* the verdict of the evaluator run on lc_data from start to end on its own
VerdictAlone ==
    LET r1 == IF BeneficiaryEntry # NoEntry
              THEN AfterBeneficiary(InitialResult, BeneficiaryEntry) ELSE InitialResult
        i1 == IF BeneficiaryEntry # NoEntry
              THEN <<Issue("Beneficiary country", BeneficiaryEntry.name, BeneficiaryEntry.status)>>
              ELSE <<>>
        r2 == IF IssuingEntry # NoEntry THEN AfterIssuing(r1, IssuingEntry) ELSE r1
        i2 == IF IssuingEntry # NoEntry
              THEN Append(i1, Issue("Issuing bank country", IssuingEntry.name, IssuingEntry.status))
              ELSE i1
        r3 == IF DestinationPort # NoPort THEN AfterDestination(r2, DestinationPort) ELSE r2
        i3 == IF DestinationPort # NoPort
              THEN Append(i2, Issue("Port of destination", port_destination, DestinationPort.reason))
              ELSE i2
        r4 == IF LoadingPort # NoPort THEN AfterLoading(r3, LoadingPort) ELSE r3
        i4 == IF LoadingPort # NoPort
              THEN Append(i3, Issue("Port of loading", port_loading, LoadingPort.reason))
              ELSE i3
        r5 == IF HasDualUseKeyword THEN AfterDualUse(r4) ELSE r4
        i5 == IF HasDualUseKeyword
              THEN Append(i4, Issue("Product", product,
                                    "may be dual-use goods requiring export controls"))
              ELSE i4
    IN BuildResponse(r5, i5)

\* C16: however the steps of a merge call and of an evaluator call interleave,
\* the reference table's lists, the merge arguments and the evaluated record
\* stay as they were, the verdict's sources list is the verdict's own, and
\* each call returns what it returns when run alone.
C16_NoInterference ==
    /\ [](/\ table_sources = TableSources
          /\ result_sources = FreshList
          /\ Deref(heap, PROVIDED) = Provided
          /\ Deref(heap, COLLECTED) = arg_collected
          /\ mpc = "done" => merge_result = MergeRecords(impl, Provided, arg_collected)
          /\ cpc = "returned" => result = VerdictAlone)
    /\ [][lc_data' = lc_data]_vars

\* both calls under way: the merge is inside its loop with a copy it has
\* written to, the evaluator has extended the sources list twice
C16_Witness ==
    /\ mpc \notin {"copy", "done"}
    /\ Deref(heap, <<"merged">>) # Provided
    /\ cpc = "check_destination"
    /\ Len(result.sources) >= 2

(***************************************************************************)
(* Further properties of the evaluator.                                    *)
(***************************************************************************)
\* the rules the input record triggers, in the order of the checks
ExpectedRules ==
    (IF BeneficiaryEntry # NoEntry THEN <<"Beneficiary country">> ELSE <<>>)
    \o (IF IssuingEntry # NoEntry THEN <<"Issuing bank country">> ELSE <<>>)
    \o (IF DestinationPort # NoPort THEN <<"Port of destination">> ELSE <<>>)
    \o (IF LoadingPort # NoPort THEN <<"Port of loading">> ELSE <<>>)
    \o (IF HasDualUseKeyword THEN <<"Product">> ELSE <<>>)

CheckOrder ==
    {<<"check_beneficiary", "check_issuing">>, <<"check_issuing", "check_destination">>,
     <<"check_destination", "check_loading">>, <<"check_loading", "check_dual_use">>,
     <<"check_dual_use", "build_response">>, <<"build_response", "returned">>}

\* C21: the reason of a returned verdict has exactly one entry per triggered
\* rule, in the order beneficiary, issuing, destination, loading, dual-use,
\* and every check is followed by the next one whatever it found.
C21_AllRulesApply ==
    /\ [](cpc = "returned" =>
            [k \in 1..Len(result.reason.issues) |-> result.reason.issues[k].rule]
                = ExpectedRules)
    /\ [][cpc' # cpc => <<cpc, cpc'>> \in CheckOrder]_vars

\* all five rules triggered on one record
C21_Witness ==
    /\ cpc = "returned"
    /\ Len(result.reason.issues) = 5
    /\ result.blocked

\* C22: the loading-port step, on a match, leaves blocked as it was and
\* leaves the level CRITICAL if it was CRITICAL and HIGH otherwise, whatever
\* the port's own risk.
C22_LoadingPortStep ==
    [][(cpc = "check_loading" /\ cpc' = "check_dual_use" /\ LoadingPort # NoPort)
          => /\ result'.risk_level =
                    IF result.risk_level = "CRITICAL" THEN "CRITICAL" ELSE "HIGH"
             /\ result'.blocked = result.blocked]_vars

\* a CRITICAL port as port of loading: the level is HIGH, nothing is blocked
C22_Witness ==
    /\ cpc = "check_dual_use"
    /\ LoadingPort.risk = "CRITICAL"
    /\ result.risk_level = "HIGH"
    /\ ~result.blocked

\* C27: a returned verdict is non-compliant exactly when the beneficiary
\* country, the issuing-bank country or the destination port matched; the
\* loading-port and dual-use steps leave compliant as it was.
C27_CompliantIff ==
    /\ [](cpc = "returned" =>
            (~result.compliant <=>
                \/ BeneficiaryEntry # NoEntry
                \/ IssuingEntry # NoEntry
                \/ DestinationPort # NoPort))
    /\ [][(cpc = "check_loading" \/ cpc = "check_dual_use")
            => result'.compliant = result.compliant]_vars

\* issues and HIGH, yet compliant
C27_Witness ==
    /\ cpc = "returned"
    /\ result.compliant
    /\ result.risk_level = "HIGH"
    /\ result.reason.issues # <<>>
    /\ HasDualUseKeyword

\* C29 (as stated): a CRITICAL verdict is blocked and carries the
\* 'CANNOT proceed' recommendation.
C29_CriticalImpliesBlocked ==
    (cpc = "returned" /\ result.risk_level = "CRITICAL")
        => (result.blocked /\ result.recommendations = CANNOT_PROCEED)

\* C29 (amended): a CRITICAL verdict is blocked exactly when the beneficiary
\* country's entry is blocked or the destination port is CRITICAL; a blocked
\* verdict carries 'CANNOT proceed', and a CRITICAL verdict that is not blocked
\* has its level from the issuing-bank country and carries 'Proceed with
\* caution'.
C29_CriticalBlockedUnlessIssuing ==
    (cpc = "returned" /\ result.risk_level = "CRITICAL")
        => /\ result.blocked <=> (BeneficiaryEntry.blocked \/ DestinationPort.risk = "CRITICAL")
           /\ result.blocked => result.recommendations = CANNOT_PROCEED
           /\ ~result.blocked =>
                /\ IssuingEntry.risk_level = "CRITICAL"
                /\ result.recommendations = PROCEED_WITH_CAUTION

\* issuing country with a blocked CRITICAL entry, a loading port on top
C29_Witness ==
    /\ cpc = "returned"
    /\ result.risk_level = "CRITICAL"
    /\ ~result.blocked
    /\ IssuingEntry.blocked
    /\ LoadingPort # NoPort
    /\ result.recommendations = PROCEED_WITH_CAUTION

(***************************************************************************)
(* The lookup and the spelling of names.                                   *)
(***************************************************************************)
UpperChar(c) ==
    IF \E u \in DOMAIN UpperToLower : UpperToLower[u] = c
    THEN CHOOSE u \in DOMAIN UpperToLower : UpperToLower[u] = c
    ELSE c

\* the two respellings tried: trimmed lower case, and upper case between blanks
Plainly(str) == IF str = None THEN None ELSE Strip(Lower(str))

Loudly(str) ==
    IF str = None THEN None
    ELSE <<" ", "\t">> \o [i \in 1..Len(str) |-> UpperChar(str[i])] \o <<"\n", " ">>

\* the name fields of a record: None where the key is absent
NamesOf(lc) ==
    [b |-> DictGet(DictGet(lc, "exporter_info", <<>>), "beneficiary_country", None),
     i |-> DictGet(DictGet(lc, "lc_details", <<>>), "issuing_bank_country", None),
     pl |-> DictGet(DictGet(lc, "shipment_details", <<>>), "port_of_loading", None),
     pd |-> DictGet(DictGet(lc, "shipment_details", <<>>), "port_of_destination", None)]

\* the records that differ from lc_data in the spelling of one name field, or
\* of all four
Respelled ==
    LET n == NamesOf(lc_data)
        one(f, how) == [n EXCEPT ![f] = IF how = "plain" THEN Plainly(@) ELSE Loudly(@)]
        all(how) == [f \in DOMAIN n |-> IF how = "plain" THEN Plainly(n[f]) ELSE Loudly(n[f])]
    IN {one(f, how) : f \in DOMAIN n, how \in {"plain", "loud"}}
         \cup {all(how) : how \in {"plain", "loud"}}

\* the verdict of the evaluator on a record with the given names and the
\* product of lc_data
VerdictOn(n) ==
    LET be == check_country_sanctions(n.b)
        ie == check_country_sanctions(n.i)
        dp == check_port_sanctions(n.pd)
        lp == check_port_sanctions(n.pl)
        r1 == IF Truthy(n.b) /\ be # NoEntry THEN AfterBeneficiary(InitialResult, be)
              ELSE InitialResult
        r2 == IF Truthy(n.i) /\ ie # NoEntry THEN AfterIssuing(r1, ie) ELSE r1
        r3 == IF Truthy(n.pd) /\ dp # NoPort THEN AfterDestination(r2, dp) ELSE r2
        r4 == IF Truthy(n.pl) /\ lp # NoPort THEN AfterLoading(r3, lp) ELSE r3
    IN IF Truthy(product) /\ is_dual_use_product(product) THEN AfterDualUse(r4) ELSE r4

\* null, empty, or not a key of the table once lower-cased and trimmed
Unknown(str, table) == str = None \/ str = <<>> \/ Strip(Lower(str)) \notin DOMAIN table

RulesIn(res) == {res.reason.issues[k].rule : k \in 1..Len(res.reason.issues)}

\* C23: the verdict returned for a record agrees on compliant, risk_level,
\* blocked and sources with the verdict for every respelling of its country
\* and port names (letter case, surrounding whitespace); a null, empty or
\* unknown name yields its lookup's "no entry" and triggers no rule.
C23_SpellingInvariant ==
    cpc = "returned" =>
        /\ \A n \in Respelled :
              LET v == VerdictOn(n)
              IN /\ v.compliant = result.compliant
                 /\ v.risk_level = result.risk_level
                 /\ v.blocked = result.blocked
                 /\ v.sources = result.sources
        /\ Unknown(beneficiary_country, SANCTIONED_COUNTRIES)
              => /\ check_country_sanctions(beneficiary_country) = NoEntry
                 /\ "Beneficiary country" \notin RulesIn(result)
        /\ Unknown(issuing_country, SANCTIONED_COUNTRIES)
              => /\ check_country_sanctions(issuing_country) = NoEntry
                 /\ "Issuing bank country" \notin RulesIn(result)
        /\ Unknown(port_destination, HIGH_RISK_PORTS)
              => /\ check_port_sanctions(port_destination) = NoPort
                 /\ "Port of destination" \notin RulesIn(result)
        /\ Unknown(port_loading, HIGH_RISK_PORTS)
              => /\ check_port_sanctions(port_loading) = NoPort
                 /\ "Port of loading" \notin RulesIn(result)

\* " IRAN " as beneficiary country and " bandar abbas" as destination port,
\* blocked as "iran" and "bandar abbas" are, with a null issuing country
C23_Witness ==
    /\ cpc = "returned"
    /\ beneficiary_country = <<" ", "I", "R", "A", "N", " ">>
    /\ port_destination = <<" ", "b", "a", "n", "d", "a", "r", " ", "a", "b", "b", "a", "s">>
    /\ issuing_country = None
    /\ result.blocked
    /\ RulesIn(result) = {"Beneficiary country", "Port of destination"}

(***************************************************************************)
(* Further properties of the mergers.                                      *)
(***************************************************************************)
\* C25: whichever merger is called, the record it returns is the record
\* either merger computes from the same two arguments, a field held as None
\* on either side or on both included.
C25_MergersAgree ==
    mpc = "done" =>
        \A m \in Impls : merge_result = MergeRecords(m, Provided, arg_collected)

\* the one case where the two conditions differ: None on both sides
C25_Witness ==
    /\ mpc = "done"
    /\ round = 1
    /\ impl = "_merge_lc_data"
    /\ \E s \in SectionKeys, f \in Fields :
        /\ FieldOf(arg_provided, s, f) = NULL
        /\ FieldOf(arg_collected, s, f) = NULL
        /\ ShouldAssignCollected(arg_provided[s].items, f, NULL)
        /\ ~ShouldAssignExtracted(arg_provided[s].items, f, NULL)
        /\ FieldOf(merge_result, s, f) = NULL
    /\ \E s \in SectionKeys, f \in Fields :
        /\ HasValue(arg_provided, s, f)
        /\ FieldOf(arg_collected, s, f) = NULL

\* the records all of whose top-level values are field mappings
SectionRecords == {r \in LCRecords : \A k \in DOMAIN r : IsDict(r[k])}

\* C26: for records A, B, C whose sections are field mappings,
\* merge(merge(A, B), C) = merge(A, merge(B, C)); A and B are the arguments
\* of the call, merge(A, B) is what it returned, and the second call of the
\* run is the case C = B.
C26_Associative ==
    (mpc = "done" /\ arg_provided \in SectionRecords /\ arg_collected \in SectionRecords)
        => /\ round = 1 =>
                \A C \in SectionRecords :
                    MergeRecords(impl, merge_result, C)
                        = MergeRecords(impl, arg_provided, MergeRecords(impl, arg_collected, C))
           /\ round = 2 =>
                merge_result
                    = MergeRecords(impl, arg_provided,
                                   MergeRecords(impl, arg_collected, arg_collected))

\* A holds a value, B holds None, and there is a C with another value there
C26_Witness ==
    /\ mpc = "done"
    /\ round = 1
    /\ arg_provided \in SectionRecords
    /\ arg_collected \in SectionRecords
    /\ \E s \in SectionKeys, f \in Fields :
        /\ HasValue(arg_provided, s, f)
        /\ FieldOf(arg_collected, s, f) = NULL
        /\ \E C \in SectionRecords :
            /\ HasValue(C, s, f)
            /\ FieldOf(C, s, f) # FieldOf(arg_provided, s, f)
            /\ FieldOf(MergeRecords(impl, merge_result, C), s, f) = FieldOf(arg_provided, s, f)

(***************************************************************************)
(* Further properties of the schema registry.                              *)
(***************************************************************************)
\* the record holds a non-null value for the field declared at a position
HoldsField(data, p) ==
    IF p[2] = 0
    THEN LET m == Content(data)
             k == LC_FORM_SCHEMA[p[1]].name
         IN k \in DOMAIN m /\ ~m[k].is_dict /\ m[k].scalar # NULL
    ELSE HoldsValue(data, LC_FORM_SCHEMA[p[1]].name, LC_FORM_SCHEMA[p[1]].items[p[2]].name)

\* C24: the report names exactly the declared fields, the top-level field
\* transaction_role included, for which the record holds no non-null value.
C24_ReportComplete ==
    spc = "done" =>
        {[section |-> ReportEntry(x).section, field |-> ReportEntry(x).field_name] :
            x \in ReportPlaces}
          = {CanonicalAt(p) : p \in {q \in FieldPositions : ~HoldsField(provided_fields, q)}}

\* C30: no label, in lower case and trimmed, is the canonical key or an alias
\* of two different fields of LC_FORM_SCHEMA, so that at most one field matches
\* a label whatever the order of the scan.
C30_LabelsUnambiguous ==
    spc = "resolved" =>
        \A p, q \in FieldPositions : p # q => LabelsAt(p) \cap LabelsAt(q) = {}

(***************************************************************************)
(* Properties of the OCR endpoint's final status.                          *)
(***************************************************************************)
\* C28: a final status of APPROVED goes with a risk level of LOW or MEDIUM
\* only, and a blocked verdict is always DENIED.
C28_ApprovedOnlyLowRisk ==
    final_status # UNSET =>
        /\ final_status = "APPROVED" => result.risk_level \in {"LOW", "MEDIUM"}
        /\ result.blocked => final_status = "DENIED"

====
